---- MODULE Spec2Model ----
(***************************************************************************)
(* A model of the statement acquisition layer of postgresparser: one run   *)
(* of the grammar parser (an external collaborator, modelled by the        *)
(* outcomes it can hand back), prepareParseState, the three entry points   *)
(* ParseSQL / ParseSQLAll / ParseSQLStrict, the syntax-error correlator    *)
(* and the utility-recovery heuristic.                                     *)
(*                                                                         *)
(* SQL text is a sequence of one-character strings, so that the            *)
(* hand-written scanners are modelled character by character.             *)
(***************************************************************************)
EXTENDS Integers, Sequences, FiniteSets, TLC

VARIABLES
    cleanSQL,   \* the preprocessed SQL text handed to the grammar parser
    stream,     \* the default-channel tokens of cleanSQL, EOF last
    root,       \* how much of the tree the parser handed back
    stmts,      \* stmtMulti.AllStmt(): the statement nodes, in source order
    errs,       \* errListener.errs: the syntax errors, in collection order
    op,         \* the entry point that was called, "none" before the call
    ret         \* what the call returned: [val |-> ..., err |-> ...]

vars == <<cleanSQL, stream, root, stmts, errs, op, ret>>

\* Bounds of the model.
MaxStmts == 3
MaxErrs == 2

----------------------------------------------------------------------------
\* Text primitives.

Min(S) == CHOOSE x \in S : \A y \in S : x <= y

RECURSIVE Concat(_)
Concat(ss) == IF ss = <<>> THEN <<>> ELSE Head(ss) \o Concat(Tail(ss))

\* The characters of a text as one string (used inside messages).
RECURSIVE Str(_)
Str(s) == IF s = <<>> THEN "" ELSE Head(s) \o Str(Tail(s))

\* The white space strings.TrimSpace removes (the part of it the inputs use).
IsUnicodeSpace(c) == c \in {" ", "\t", "\n", "\r", "\f"}

RECURSIVE TrimLeftSpace(_)
TrimLeftSpace(s) ==
    IF s # <<>> /\ IsUnicodeSpace(Head(s)) THEN TrimLeftSpace(Tail(s)) ELSE s

RECURSIVE TrimRightSpace(_)
TrimRightSpace(s) ==
    IF s # <<>> /\ IsUnicodeSpace(s[Len(s)])
    THEN TrimRightSpace(SubSeq(s, 1, Len(s) - 1))
    ELSE s

TrimSpace(s) == TrimRightSpace(TrimLeftSpace(s))

----------------------------------------------------------------------------
\* The grammar parser's side: source texts, their tokens, the statement
\* nodes and the syntax errors it reports.

W_SELECT == <<"S", "E", "L", "E", "C", "T">>
W_SET == <<"S", "E", "T">>
W_info == <<"i", "n", "f", "o">>

\* The statement forms of the inputs: a SELECT whose extraction succeeds, a
\* SELECT whose extractor returns an error, and SET <name> = <log level>,
\* which no case of the dispatch handles.
StmtForms == {"select", "selectNilCtx", "setLevel"}

FormWords(f) ==
    IF f = "setLevel" THEN <<W_SET, <<"f">>, <<"=">>, W_info>>
    ELSE <<W_SELECT, <<"1">>>>

FormNode(f) == IF f = "setLevel" THEN "none" ELSE "Selectstmt"

FormPopulateErr(f) == f = "selectNilCtx"

\* White space after the ';' between two statements, and before the first.
SepSpaces == {<<" ">>, <<"\n">>}
LeadSpaces == {<<>>, <<"\n">>}

Piece(text, tok, i) == [text |-> text, tok |-> tok, stmt |-> i]

RECURSIVE WordPieces(_, _)
WordPieces(ws, i) ==
    IF ws = <<>> THEN <<>>
    ELSE <<Piece(Head(ws), TRUE, i)>>
         \o (IF Len(ws) > 1 THEN <<Piece(<<" ">>, FALSE, 0)>> ELSE <<>>)
         \o WordPieces(Tail(ws), i)

RECURSIVE StmtPieces(_, _, _)
StmtPieces(forms, seps, i) ==
    IF i > Len(forms) THEN <<>>
    ELSE WordPieces(FormWords(forms[i]), i)
         \o (IF i < Len(forms)
             THEN <<Piece(<<";">>, TRUE, 0), Piece(seps[i], FALSE, 0)>>
             ELSE <<>>)
         \o StmtPieces(forms, seps, i + 1)

\* The pieces of a source: tokens and the white space between them.
Pieces(forms, seps, lead) ==
    (IF lead = <<>> THEN <<>> ELSE <<Piece(lead, FALSE, 0)>>)
    \o StmtPieces(forms, seps, 1)

SourceText(pieces) == Concat([k \in 1..Len(pieces) |-> pieces[k].text])

NilToken == [nil |-> TRUE, index |-> -1, line |-> 0, column |-> 0,
             from |-> 0, to |-> -1, stmt |-> 0]

Token(index, line, column, from, to, i) ==
    [nil |-> FALSE, index |-> index, line |-> line, column |-> column,
     from |-> from, to |-> to, stmt |-> i]

\* Line (1-based) and column (0-based) after reading text from (line, col).
RECURSIVE Advance(_, _, _)
Advance(text, line, col) ==
    IF text = <<>> THEN <<line, col>>
    ELSE IF Head(text) = "\n" THEN Advance(Tail(text), line + 1, 0)
    ELSE Advance(Tail(text), line, col + 1)

\* The token stream of the pieces: token indices count from 0, and the
\* stream ends with the EOF token.
RECURSIVE Lex(_, _, _, _, _)
Lex(ps, offset, line, col, index) ==
    IF ps = <<>>
    THEN <<Token(index, line, col, offset, offset - 1, 0)>>
    ELSE LET p == Head(ps)
             n == Len(p.text)
             at == Advance(p.text, line, col)
         IN (IF p.tok
             THEN <<Token(index, line, col, offset, offset + n - 1, p.stmt)>>
             ELSE <<>>)
            \o Lex(Tail(ps), offset + n, at[1], at[2],
                   IF p.tok THEN index + 1 ELSE index)

\* The source text a token spans.
TokenText(text, tok) == SubSeq(text, tok.from + 1, tok.to + 1)

\* The node of statement i: its first and last token, the sub-production it
\* holds, and whether the extractor of that sub-production returns an error.
StmtContext(toks, i, form) ==
    LET mine == SelectSeq(toks, LAMBDA t : t.stmt = i)
    IN [start |-> mine[1], stop |-> mine[Len(mine)],
        node |-> FormNode(form), populateErr |-> FormPopulateErr(form)]

\* What the parser hands its error listener for one syntax error: the
\* offending token (or none), the line and column, and the message.
ErrorReports(text, toks) ==
    {[sym |-> toks[k], line |-> toks[k].line, column |-> toks[k].column,
      msg |-> "mismatched input '" \o Str(TokenText(text, toks[k])) \o "'"]
        : k \in 1..Len(toks)}
    \cup
    {[sym |-> NilToken, line |-> l, column |-> 0,
      msg |-> "no viable alternative"]
        : l \in 1..toks[Len(toks)].line}

\* The parser reads its input once, left to right, and after a report it
\* stays silent until it has consumed a token: a later report is at a later
\* place than the one before it.
Before(r1, r2) ==
    \/ r1.line < r2.line
    \/ r1.line = r2.line /\ r1.column < r2.column

\* The sequences of at most n reports out of R, in source order.
RECURSIVE ReportSeqs(_, _)
ReportSeqs(R, n) ==
    IF n = 0 THEN {<<>>}
    ELSE LET shorter == ReportSeqs(R, n - 1)
             longest == {t \in shorter : Len(t) = n - 1}
         IN shorter \cup
            UNION {{Append(t, r) :
                      r \in {q \in R : n = 1 \/ Before(t[n - 1], q)}}
                   : t \in longest}

\* How much of the tree comes back: a statement list is there whenever
\* statements were recovered.
RootShapes(n) ==
    IF n > 0 THEN {"ok"}
    ELSE {"nilRoot", "nilStmtblock", "nilStmtmulti", "ok"}

----------------------------------------------------------------------------
\* Errors and results.

Nil == [kind |-> "nil"]

ErrNoStatements == [kind |-> "ErrNoStatements"]
ErrMultipleStatements == [kind |-> "ErrMultipleStatements"]
ErrNilContext == [kind |-> "ErrNilContext"]

MultipleStatementsError(n) ==
    [kind |-> "MultipleStatementsError", StatementCount |-> n]

\* A ParseErrors that keeps only the first syntax error.
ParseErrors_FirstOnly(sql, es) ==
    [kind |-> "ParseErrors", SQL |-> sql, Errors |-> SubSeq(es, 1, 1)]

ParseErrors(sql, es) == [kind |-> "ParseErrors", SQL |-> sql, Errors |-> es]

\* (*MultipleStatementsError).Unwrap, and the wrapping of fmt.Errorf("%w").
Unwrap(e) ==
    IF e.kind = "MultipleStatementsError" THEN ErrMultipleStatements
    ELSE IF e.kind = "wrapped" THEN e.cause
    ELSE Nil

\* errors.Is over the chains that occur here (at most one wrapping).
ErrorsIs(e, target) == e = target \/ Unwrap(e) = target

\* parseErrorListener.SyntaxError: one report appended to the listener.
ListenerSyntaxError(l, r) ==
    LET tokenIndex == IF r.sym.nil THEN -1 ELSE r.sym.index
    IN Append(l, [Line |-> r.line, Column |-> r.column,
                  Message |-> r.msg, TokenIndex |-> tokenIndex])

RECURSIVE Listen(_, _)
Listen(l, reports) ==
    IF reports = <<>> THEN l
    ELSE Listen(ListenerSyntaxError(l, Head(reports)), Tail(reports))

----------------------------------------------------------------------------
\* prepareParseState and the statement dispatch.

Parse(sql, toks, rt, ss, es) ==
    [cleanSQL |-> sql, stream |-> toks, root |-> rt, stmts |-> ss, errs |-> es]

NilState == [kind |-> "nil"]

\* A prepareParseState that, in the tolerant mode, reports a parse without
\* statement nodes as ErrNoStatements whether or not errors were collected.
prepareParseState_NoStatementsFirst(p, tolerateSyntaxErrors) ==
    IF ~tolerateSyntaxErrors /\ Len(p.errs) > 0
    THEN [state |-> NilState, err |-> ParseErrors(p.cleanSQL, p.errs)]
    ELSE IF p.root # "ok" \/ Len(p.stmts) = 0
    THEN [state |-> NilState, err |-> ErrNoStatements]
    ELSE [state |-> [kind |-> "parseState",
                     cleanSQL |-> p.cleanSQL,
                     stream |-> p.stream,
                     stmts |-> p.stmts,
                     syntaxErrors |->
                         IF tolerateSyntaxErrors THEN p.errs ELSE <<>>],
          err |-> Nil]

prepareParseState(p, tolerateSyntaxErrors) ==
    IF ~tolerateSyntaxErrors /\ Len(p.errs) > 0
    THEN [state |-> NilState, err |-> ParseErrors(p.cleanSQL, p.errs)]
    ELSE IF p.root \in {"nilRoot", "nilStmtblock"}
              \/ p.root = "nilStmtmulti"
              \/ Len(p.stmts) = 0
    THEN IF Len(p.errs) > 0
         THEN [state |-> NilState, err |-> ParseErrors(p.cleanSQL, p.errs)]
         ELSE [state |-> NilState, err |-> ErrNoStatements]
    ELSE [state |-> [kind |-> "parseState",
                     cleanSQL |-> p.cleanSQL,
                     stream |-> p.stream,
                     stmts |-> p.stmts,
                     syntaxErrors |->
                         IF tolerateSyntaxErrors THEN p.errs ELSE <<>>],
          err |-> Nil]

\* The command of each sub-production the dispatch knows.
CommandOf(node) ==
    CASE node = "Selectstmt" -> "SELECT"
      [] node = "Insertstmt" -> "INSERT"
      [] node = "Updatestmt" -> "UPDATE"
      [] node = "Deletestmt" -> "DELETE"
      [] node = "Mergestmt" -> "MERGE"
      [] node \in {"Createstmt", "Dropstmt", "Altertablestmt", "Indexstmt",
                   "Truncatestmt"} -> "DDL"
      [] OTHER -> "UNKNOWN"

parseStatementToIR(stmt, toks, rawSQL) ==
    LET res == [kind |-> "ParsedQuery", Command |-> "UNKNOWN",
                RawSQL |-> TrimSpace(rawSQL)]
    IN IF CommandOf(stmt.node) = "UNKNOWN"
       THEN [val |-> res, err |-> Nil]
       ELSE IF stmt.populateErr
       THEN [val |-> Nil, err |-> [kind |-> "wrapped", cause |-> ErrNilContext]]
       ELSE [val |-> [res EXCEPT !.Command = CommandOf(stmt.node)],
             err |-> Nil]

\* The source text from the first to the last token of a node.
ctxText(text, stmt) ==
    IF stmt.start.nil \/ stmt.stop.nil THEN <<>>
    ELSE SubSeq(text, stmt.start.from + 1, stmt.stop.to + 1)

statementText(text, stmt) == TrimSpace(ctxText(text, stmt))

----------------------------------------------------------------------------
\* The correlator.

statementTokenBounds(stmt) ==
    IF stmt.start.nil \/ stmt.stop.nil THEN <<-1, -1>>
    ELSE <<stmt.start.index, stmt.stop.index>>

\* A statementLineBounds that leaves a stop line before the start line as
\* it is.
statementLineBounds_NoClamp(stmt) ==
    IF stmt.start.nil /\ stmt.stop.nil THEN <<0, 0>>
    ELSE <<IF stmt.start.nil THEN 0 ELSE stmt.start.line,
           IF stmt.stop.nil THEN 0 ELSE stmt.stop.line>>

statementLineBounds(stmt) ==
    IF stmt.start.nil /\ stmt.stop.nil THEN <<0, 0>>
    ELSE LET startLine == IF stmt.start.nil THEN 0 ELSE stmt.start.line
             stopLine == IF stmt.stop.nil THEN 0 ELSE stmt.stop.line
         IN IF startLine > 0 /\ stopLine < startLine
            THEN <<startLine, startLine>>
            ELSE <<startLine, stopLine>>

\* The 0-based index of the statement a syntax error belongs to, or -1.
statementIndexForSyntaxError(ss, syntaxErr) ==
    IF Len(ss) = 0 THEN -1
    ELSE
    LET byToken == {i \in 1..Len(ss) :
                      LET b == statementTokenBounds(ss[i])
                      IN /\ ~(b[1] < 0 \/ b[2] < b[1])
                         /\ syntaxErr.TokenIndex >= b[1]
                         /\ syntaxErr.TokenIndex <= b[2]}
        byLine == {i \in 1..Len(ss) :
                      LET b == statementLineBounds(ss[i])
                      IN /\ ~(b[1] = 0 /\ b[2] = 0)
                         /\ syntaxErr.Line >= b[1]
                         /\ syntaxErr.Line <= b[2]}
        firstStart == statementLineBounds(ss[1])[1]
    IN IF syntaxErr.TokenIndex >= 0 /\ byToken # {} THEN Min(byToken) - 1
       ELSE IF byLine # {} THEN Min(byLine) - 1
       ELSE IF firstStart > 0 /\ syntaxErr.Line < firstStart THEN 0
       ELSE -1

----------------------------------------------------------------------------
\* The utility-recovery heuristic (ASCII texts: one character is one byte).

LowerLetters == <<"a", "b", "c", "d", "e", "f", "g", "h", "i", "j", "k", "l",
                  "m", "n", "o", "p", "q", "r", "s", "t", "u", "v", "w", "x",
                  "y", "z">>
UpperLetters == <<"A", "B", "C", "D", "E", "F", "G", "H", "I", "J", "K", "L",
                  "M", "N", "O", "P", "Q", "R", "S", "T", "U", "V", "W", "X",
                  "Y", "Z">>
Digits == {"0", "1", "2", "3", "4", "5", "6", "7", "8", "9"}

W_WARNING == <<"W", "A", "R", "N", "I", "N", "G">>
W_NOTICE == <<"N", "O", "T", "I", "C", "E">>
W_DEBUG == <<"D", "E", "B", "U", "G">>
W_INFO == <<"I", "N", "F", "O">>
W_EXCEPTION == <<"E", "X", "C", "E", "P", "T", "I", "O", "N">>
W_ERROR == <<"E", "R", "R", "O", "R">>
W_SHOW == <<"S", "H", "O", "W">>
W_RESET == <<"R", "E", "S", "E", "T">>
W_SESSION == <<"S", "E", "S", "S", "I", "O", "N">>
W_LOCAL == <<"L", "O", "C", "A", "L">>
W_TO == <<"T", "O">>

\* A recoverableSetLevels that also holds the value ON.
recoverableSetLevels_WithOn ==
    {W_WARNING, W_NOTICE, W_DEBUG, W_INFO, W_EXCEPTION, W_ERROR, <<"O", "N">>}

recoverableSetLevels ==
    {W_WARNING, W_NOTICE, W_DEBUG, W_INFO, W_EXCEPTION, W_ERROR}

toUpperASCII(b) ==
    IF \E k \in 1..26 : LowerLetters[k] = b
    THEN UpperLetters[CHOOSE k \in 1..26 : LowerLetters[k] = b]
    ELSE b

isASCIIAlpha(b) == \E k \in 1..26 : LowerLetters[k] = b \/ UpperLetters[k] = b

\* ' ', \t, \n, \r, \v, \f (no input of the model holds a \v).
isASCIISpace(b) == b \in {" ", "\t", "\n", "\r", "\f"}

isWordChar(b) == isASCIIAlpha(b) \/ b \in Digits \/ b = "_" \/ b = "."

isSettingName(s) == s # <<>> /\ \A k \in 1..Len(s) : isWordChar(s[k])

equalFoldASCIIWord(value, want) ==
    /\ Len(value) = Len(want)
    /\ \A k \in 1..Len(value) : toUpperASCII(value[k]) = want[k]

\* strings.ToUpper on ASCII text.
ToUpper(s) == [k \in 1..Len(s) |-> toUpperASCII(s[k])]

\* The offset (0-based) of the first character from i on that is no space.
RECURSIVE SkipSpaces(_, _)
SkipSpaces(s, i) ==
    IF i < Len(s) /\ isASCIISpace(s[i + 1]) THEN SkipSpaces(s, i + 1) ELSE i

\* The offset of the first character from i on that is no word character.
RECURSIVE SkipWord(_, _)
SkipWord(s, i) ==
    IF i < Len(s) /\ isWordChar(s[i + 1]) THEN SkipWord(s, i + 1) ELSE i

\* The offset of the first character from i on that is no letter.
RECURSIVE SkipAlpha(_, _)
SkipAlpha(s, i) ==
    IF i < Len(s) /\ isASCIIAlpha(s[i + 1]) THEN SkipAlpha(s, i + 1) ELSE i

\* s[from:to] of Go: offsets from (inclusive) to to (exclusive).
Slice(s, from, to) == SubSeq(s, from + 1, to)

\* The nextWord closure of parseSetRecoveryShape, called with the cursor at
\* i: the word read, whether one was read, and the cursor afterwards.
nextWord(trimmed, i) ==
    LET start == SkipSpaces(trimmed, i)
        end == SkipWord(trimmed, start)
    IN IF start >= Len(trimmed) \/ start = end
       THEN [word |-> <<>>, ok |-> FALSE, i |-> start]
       ELSE [word |-> Slice(trimmed, start, end), ok |-> TRUE, i |-> end]

NoShape == [setting |-> <<>>, rhsToken |-> <<>>, rhsStart |-> 0,
            trimmed |-> <<>>, ok |-> FALSE]

\* parseSetRecoveryShape, from its end to its start; every step gets the
\* cursor i (an offset into trimmed) and what was read so far.

\* A shapeEnd that accepts whatever follows the value.
shapeEnd_IgnoreRest(trimmed, settingWord, rhsStart, rhsEnd, i) ==
    [setting |-> ToUpper(settingWord),
     rhsToken |-> ToUpper(Slice(trimmed, rhsStart, rhsEnd)),
     rhsStart |-> rhsStart, trimmed |-> trimmed, ok |-> TRUE]

\* After the white space behind the value: an optional ';', then nothing.
shapeEnd(trimmed, settingWord, rhsStart, rhsEnd, i) ==
    LET last == IF i < Len(trimmed) /\ trimmed[i + 1] = ";"
                THEN SkipSpaces(trimmed, i + 1)
                ELSE i
    IN IF last # Len(trimmed) THEN NoShape
       ELSE [setting |-> ToUpper(settingWord),
             rhsToken |-> ToUpper(Slice(trimmed, rhsStart, rhsEnd)),
             rhsStart |-> rhsStart, trimmed |-> trimmed, ok |-> TRUE]

\* After the word characters of the value.
shapeRhsEnd(trimmed, settingWord, rhsStart, i) ==
    IF rhsStart = i THEN NoShape
    ELSE shapeEnd(trimmed, settingWord, rhsStart, i, SkipSpaces(trimmed, i))

\* After the white space behind the operator.
shapeRhs(trimmed, settingWord, i) ==
    IF i >= Len(trimmed) THEN NoShape
    ELSE shapeRhsEnd(trimmed, settingWord, i, SkipWord(trimmed, i))

\* The operator read as a word.
shapeTo(trimmed, settingWord, opWord) ==
    IF ~opWord.ok \/ ~equalFoldASCIIWord(opWord.word, W_TO) THEN NoShape
    ELSE shapeRhs(trimmed, settingWord, SkipSpaces(trimmed, opWord.i))

\* After the white space behind the setting name: '=' or TO.
shapeOperator(trimmed, settingWord, i) ==
    IF i >= Len(trimmed) THEN NoShape
    ELSE IF trimmed[i + 1] = "="
    THEN shapeRhs(trimmed, settingWord, SkipSpaces(trimmed, i + 1))
    ELSE shapeTo(trimmed, settingWord, nextWord(trimmed, i))

\* The setting name.
shapeSetting(trimmed, settingWord) ==
    IF ~settingWord.ok \/ ~isSettingName(settingWord.word) THEN NoShape
    ELSE shapeOperator(trimmed, settingWord.word,
                       SkipSpaces(trimmed, settingWord.i))

\* The optional scope: a word that is no scope keyword is read again as the
\* setting name.
shapeScope(trimmed, peek) ==
    shapeSetting(trimmed,
        nextWord(trimmed,
            IF peek.ok /\ (equalFoldASCIIWord(peek.word, W_SESSION)
                           \/ equalFoldASCIIWord(peek.word, W_LOCAL))
            THEN peek.i
            ELSE IF peek.ok THEN peek.i - Len(peek.word)
            ELSE peek.i))

\* The first word, which must be SET.
shapeSet(trimmed, word) ==
    IF ~word.ok \/ ~equalFoldASCIIWord(word.word, W_SET) THEN NoShape
    ELSE shapeScope(trimmed, nextWord(trimmed, word.i))

shapeTrimmed(trimmed) ==
    IF trimmed = <<>> THEN NoShape
    ELSE shapeSet(trimmed, nextWord(trimmed, 0))

parseSetRecoveryShape(sql) == shapeTrimmed(TrimSpace(sql))

isSingleStatementUtilityCandidate(sql) ==
    LET trimmed == TrimSpace(sql)
        body == IF trimmed # <<>> /\ trimmed[Len(trimmed)] = ";"
                THEN TrimSpace(SubSeq(trimmed, 1, Len(trimmed) - 1))
                ELSE trimmed
    IN /\ trimmed # <<>>
       /\ body # <<>>
       /\ \A k \in 1..Len(body) : body[k] # ";"

\* 1-based line and 0-based column of a byte offset of s.
lineAndColumnAtByteOffset(s, byteOffset) ==
    IF byteOffset < 0 THEN <<1, 0>>
    ELSE LET offset == IF byteOffset > Len(s) THEN Len(s) ELSE byteOffset
         IN Advance(SubSeq(s, 1, offset), 1, 0)

\* A hasSyntaxErrorAtToken whose column range ends at the token's last
\* character.
hasSyntaxErrorAtToken_Exclusive(es, line, column, tokenLen) ==
    LET len == IF tokenLen <= 0 THEN 1 ELSE tokenLen
        maxColumn == column + len
    IN \E k \in 1..Len(es) :
          /\ es[k].Line = line
          /\ es[k].Column >= column
          /\ es[k].Column < maxColumn

\* A hasSyntaxErrorAtToken that is satisfied by any syntax error at all.
hasSyntaxErrorAtToken_AnyError(es, line, column, tokenLen) == Len(es) > 0

hasSyntaxErrorAtToken(es, line, column, tokenLen) ==
    LET len == IF tokenLen <= 0 THEN 1 ELSE tokenLen
        maxColumn == column + len
    IN \E k \in 1..Len(es) :
          /\ es[k].Line = line
          /\ es[k].Column >= column
          /\ es[k].Column <= maxColumn

isRecoverableSetStatement(sql, es) ==
    LET shape == parseSetRecoveryShape(sql)
        at == lineAndColumnAtByteOffset(shape.trimmed, shape.rhsStart)
    IN /\ shape.ok
       /\ shape.setting # <<>>
       /\ shape.rhsToken \in recoverableSetLevels
       /\ hasSyntaxErrorAtToken(es, at[1], at[2], Len(shape.rhsToken))

\* The command the first word of the text names.
detectUtilityCommandPrefix(sql) ==
    LET start == SkipSpaces(sql, 0)
        i == SkipAlpha(sql, start)
        word == Slice(sql, start, i)
    IN IF start >= Len(sql) \/ start = i THEN "utilityCommandNone"
       ELSE IF i - start = 3 /\ equalFoldASCIIWord(word, W_SET)
       THEN "utilityCommandSet"
       ELSE IF i - start = 4 /\ equalFoldASCIIWord(word, W_SHOW)
       THEN "utilityCommandShow"
       ELSE IF i - start = 5 /\ equalFoldASCIIWord(word, W_RESET)
       THEN "utilityCommandReset"
       ELSE "utilityCommandNone"

shouldRecoverUtilityParseError(sql, es) ==
    LET cmd == detectUtilityCommandPrefix(sql)
    IN /\ cmd # "utilityCommandNone"
       /\ isSingleStatementUtilityCandidate(sql)
       /\ cmd = "utilityCommandSet"
       /\ isRecoverableSetStatement(sql, es)

----------------------------------------------------------------------------
\* The CREATE TABLE element splitter.  Offsets are 0-based as in the code:
\* rune i of the code is runes[i + 1] here.

At(runes, i) == IF i >= 0 /\ i < Len(runes) THEN runes[i + 1] ELSE "eof"

isDollarTagChar(c) == isASCIIAlpha(c) \/ c \in Digits \/ c = "_"

\* The offset of the first rune from i on that is no tag character.
RECURSIVE SkipTag(_, _)
SkipTag(runes, i) ==
    IF i < Len(runes) /\ isDollarTagChar(runes[i + 1])
    THEN SkipTag(runes, i + 1) ELSE i

\* The tag of a dollar quote that opens at runes[i] = '$'.
parseDollarTag(runes, i) ==
    IF At(runes, SkipTag(runes, i + 1)) = "$"
    THEN [tag |-> Slice(runes, i + 1, SkipTag(runes, i + 1)), ok |-> TRUE]
    ELSE [tag |-> <<>>, ok |-> FALSE]

\* Whether $tag$ is at offset i.
hasDollarTerminator(runes, i, tag) ==
    /\ i + Len(tag) + 2 <= Len(runes)
    /\ Slice(runes, i, i + Len(tag) + 2) = <<"$">> \o tag \o <<"$">>

createTableElementSplitter ==
    [elements |-> <<>>, current |-> <<>>, pendingComments |-> <<>>,
     depth |-> 0, inSingle |-> FALSE, inDouble |-> FALSE, inDollar |-> FALSE,
     dollarTag |-> <<>>, inBlockComment |-> FALSE, hasContent |-> FALSE]

flushCurrent(s) ==
    IF TrimSpace(s.current) = <<>>
    THEN [s EXCEPT !.current = <<>>, !.pendingComments = <<>>,
                   !.hasContent = FALSE]
    ELSE [s EXCEPT !.elements =
                       Append(@, [element |-> TrimSpace(s.current),
                                  comments |-> s.pendingComments]),
                   !.current = <<>>, !.pendingComments = <<>>,
                   !.hasContent = FALSE]

\* One turn of the loop at offset i: the splitter afterwards and the offset
\* of the next turn.
Turn(s, next) == [s |-> s, i |-> next]

inBlockCommentTurn(runes, i, s) ==
    IF runes[i + 1] = "*" /\ At(runes, i + 1) = "/"
    THEN Turn([s EXCEPT !.inBlockComment = FALSE], i + 2)
    ELSE Turn(s, i + 1)

inDollarTurn(runes, i, s) ==
    IF runes[i + 1] = "$" /\ hasDollarTerminator(runes, i, s.dollarTag)
    THEN Turn([s EXCEPT !.current = @ \o Slice(runes, i, i + Len(s.dollarTag) + 2),
                        !.inDollar = FALSE, !.dollarTag = <<>>],
              i + Len(s.dollarTag) + 2)
    ELSE Turn([s EXCEPT !.current = Append(@, runes[i + 1])], i + 1)

\* Inside '...' (q = "'") or "..." (q = the double quote): a doubled quote
\* stays inside.
inQuoteTurn(runes, i, s, q) ==
    IF runes[i + 1] # q
    THEN Turn([s EXCEPT !.current = Append(@, runes[i + 1])], i + 1)
    ELSE IF At(runes, i + 1) = q
    THEN Turn([s EXCEPT !.current = @ \o <<q, q>>], i + 2)
    ELSE Turn([s EXCEPT !.current = Append(@, q),
                        !.inSingle = IF q = "'" THEN FALSE ELSE @,
                        !.inDouble = IF q = "'" THEN @ ELSE FALSE],
              i + 1)

\* The offset of the end of the line from i on.
RECURSIVE LineEnd(_, _)
LineEnd(runes, i) ==
    IF i < Len(runes) /\ runes[i + 1] # "\n" /\ runes[i + 1] # "\r"
    THEN LineEnd(runes, i + 1) ELSE i

lineCommentTurn_AfterContent(runes, i, s, commentEnd) ==
    IF TrimSpace(Slice(runes, i + 2, commentEnd)) # <<>>
    THEN Turn([s EXCEPT !.pendingComments =
                            Append(@, TrimSpace(Slice(runes, i + 2, commentEnd)))],
              commentEnd)
    ELSE Turn(s, commentEnd)

lineCommentTurn(runes, i, s, commentEnd) ==
    IF ~s.hasContent /\ TrimSpace(Slice(runes, i + 2, commentEnd)) # <<>>
    THEN Turn([s EXCEPT !.pendingComments =
                            Append(@, TrimSpace(Slice(runes, i + 2, commentEnd)))],
              commentEnd)
    ELSE Turn(s, commentEnd)

dollarOpenTurn(runes, i, s, tag) ==
    Turn([s EXCEPT !.inDollar = TRUE, !.dollarTag = tag,
                   !.current = @ \o Slice(runes, i, i + Len(tag) + 2),
                   !.hasContent = TRUE],
         i + Len(tag) + 2)

\* A plainTurn that ends the element at every comma, whatever the depth.
plainTurn_AnyDepth(runes, i, s) ==
    IF runes[i + 1] = ","
    THEN Turn(flushCurrent(s), i + 1)
    ELSE Turn([s EXCEPT !.depth = IF runes[i + 1] = "(" THEN @ + 1
                                  ELSE IF runes[i + 1] = ")" /\ @ > 0
                                  THEN @ - 1 ELSE @,
                        !.current = Append(@, runes[i + 1]),
                        !.hasContent = @ \/ ~IsUnicodeSpace(runes[i + 1])],
              i + 1)

plainTurn(runes, i, s) ==
    IF runes[i + 1] = "," /\ s.depth = 0
    THEN Turn(flushCurrent(s), i + 1)
    ELSE Turn([s EXCEPT !.depth = IF runes[i + 1] = "(" THEN @ + 1
                                  ELSE IF runes[i + 1] = ")" /\ @ > 0
                                  THEN @ - 1 ELSE @,
                        !.current = Append(@, runes[i + 1]),
                        !.hasContent = @ \/ ~IsUnicodeSpace(runes[i + 1])],
              i + 1)

splitTurn(runes, i, s) ==
    IF s.inBlockComment THEN inBlockCommentTurn(runes, i, s)
    ELSE IF s.inDollar THEN inDollarTurn(runes, i, s)
    ELSE IF s.inSingle THEN inQuoteTurn(runes, i, s, "'")
    ELSE IF s.inDouble THEN inQuoteTurn(runes, i, s, "\"")
    ELSE IF runes[i + 1] = "-" /\ At(runes, i + 1) = "-"
    THEN lineCommentTurn(runes, i, s, LineEnd(runes, i + 2))
    ELSE IF runes[i + 1] = "/" /\ At(runes, i + 1) = "*"
    THEN Turn([s EXCEPT !.inBlockComment = TRUE], i + 2)
    ELSE IF runes[i + 1] = "'"
    THEN Turn([s EXCEPT !.inSingle = TRUE, !.current = Append(@, "'"),
                        !.hasContent = TRUE], i + 1)
    ELSE IF runes[i + 1] = "\""
    THEN Turn([s EXCEPT !.inDouble = TRUE, !.current = Append(@, "\""),
                        !.hasContent = TRUE], i + 1)
    ELSE IF runes[i + 1] = "$" /\ parseDollarTag(runes, i).ok
    THEN dollarOpenTurn(runes, i, s, parseDollarTag(runes, i).tag)
    ELSE plainTurn(runes, i, s)

RECURSIVE splitLoop(_, _)
splitLoop(runes, t) ==
    IF t.i >= Len(runes) THEN t.s
    ELSE splitLoop(runes, splitTurn(runes, t.i, t.s))

\* nil is the empty sequence.
splitCreateTableElementsWithComments(body) ==
    IF Len(body) = 0 THEN <<>>
    ELSE flushCurrent(splitLoop(body, Turn(createTableElementSplitter, 0))).elements

\* The scan of extractCreateTableBody: its locals, and whether it has
\* returned (found) with the body between from and to.
BodyScan ==
    [openIdx |-> -1, depth |-> 0, inSingle |-> FALSE, inDouble |-> FALSE,
     inDollar |-> FALSE, dollarTag |-> <<>>, inLineComment |-> FALSE,
     inBlockComment |-> FALSE, found |-> FALSE, closeIdx |-> -1]

bodyQuoteTurn(runes, i, b, q) ==
    IF runes[i + 1] # q THEN Turn(b, i + 1)
    ELSE IF At(runes, i + 1) = q THEN Turn(b, i + 2)
    ELSE Turn([b EXCEPT !.inSingle = IF q = "'" THEN FALSE ELSE @,
                        !.inDouble = IF q = "'" THEN @ ELSE FALSE], i + 1)

bodyParenTurn(runes, i, b) ==
    IF runes[i + 1] = "(" /\ b.openIdx < 0
    THEN Turn([b EXCEPT !.openIdx = i, !.depth = 1], i + 1)
    ELSE IF runes[i + 1] = "(" /\ b.depth > 0
    THEN Turn([b EXCEPT !.depth = @ + 1], i + 1)
    ELSE IF runes[i + 1] = ")" /\ b.depth > 0
    THEN Turn([b EXCEPT !.depth = @ - 1,
                        !.found = (b.depth = 1 /\ b.openIdx >= 0),
                        !.closeIdx = i], i + 1)
    ELSE Turn(b, i + 1)

bodyTurn(runes, i, b) ==
    IF b.inLineComment
    THEN Turn([b EXCEPT !.inLineComment = ~(runes[i + 1] \in {"\n", "\r"})], i + 1)
    ELSE IF b.inBlockComment
    THEN (IF runes[i + 1] = "*" /\ At(runes, i + 1) = "/"
          THEN Turn([b EXCEPT !.inBlockComment = FALSE], i + 2)
          ELSE Turn(b, i + 1))
    ELSE IF b.inDollar
    THEN (IF runes[i + 1] = "$" /\ hasDollarTerminator(runes, i, b.dollarTag)
          THEN Turn([b EXCEPT !.inDollar = FALSE, !.dollarTag = <<>>],
                    i + Len(b.dollarTag) + 2)
          ELSE Turn(b, i + 1))
    ELSE IF b.inSingle THEN bodyQuoteTurn(runes, i, b, "'")
    ELSE IF b.inDouble THEN bodyQuoteTurn(runes, i, b, "\"")
    ELSE IF runes[i + 1] = "-" /\ At(runes, i + 1) = "-"
    THEN Turn([b EXCEPT !.inLineComment = TRUE], i + 2)
    ELSE IF runes[i + 1] = "/" /\ At(runes, i + 1) = "*"
    THEN Turn([b EXCEPT !.inBlockComment = TRUE], i + 2)
    ELSE IF runes[i + 1] = "'" THEN Turn([b EXCEPT !.inSingle = TRUE], i + 1)
    ELSE IF runes[i + 1] = "\"" THEN Turn([b EXCEPT !.inDouble = TRUE], i + 1)
    ELSE IF runes[i + 1] = "$" /\ parseDollarTag(runes, i).ok
    THEN Turn([b EXCEPT !.inDollar = TRUE,
                        !.dollarTag = parseDollarTag(runes, i).tag],
              i + Len(parseDollarTag(runes, i).tag) + 2)
    ELSE bodyParenTurn(runes, i, b)

RECURSIVE bodyLoop(_, _)
bodyLoop(runes, t) ==
    IF t.s.found \/ t.i >= Len(runes) THEN t.s
    ELSE bodyLoop(runes, bodyTurn(runes, t.i, t.s))

\* The text inside the first top-level pair of parentheses, "" if none.
extractCreateTableBody(sql) ==
    IF bodyLoop(sql, Turn(BodyScan, 0)).found
    THEN Slice(sql, bodyLoop(sql, Turn(BodyScan, 0)).openIdx + 1,
               bodyLoop(sql, Turn(BodyScan, 0)).closeIdx)
    ELSE <<>>

\* The per-column comments of a CREATE TABLE statement.

toLowerASCII(b) ==
    IF \E k \in 1..26 : UpperLetters[k] = b
    THEN LowerLetters[CHOOSE k \in 1..26 : UpperLetters[k] = b]
    ELSE b

ToLower(s) == [k \in 1..Len(s) |-> toLowerASCII(s[k])]

RECURSIVE TrimLeftQuotes(_)
TrimLeftQuotes(s) ==
    IF s # <<>> /\ Head(s) = "\"" THEN TrimLeftQuotes(Tail(s)) ELSE s

RECURSIVE TrimRightQuotes(_)
TrimRightQuotes(s) ==
    IF s # <<>> /\ s[Len(s)] = "\""
    THEN TrimRightQuotes(SubSeq(s, 1, Len(s) - 1)) ELSE s

\* The outer double quotes of a name stripped.
trimIdentQuotes(s) == TrimRightQuotes(TrimLeftQuotes(s))

\* strings.ReplaceAll(s, `""`, `"`).
RECURSIVE UnescapeQuotes(_)
UnescapeQuotes(s) ==
    IF Len(s) >= 2 /\ s[1] = "\"" /\ s[2] = "\""
    THEN <<"\"">> \o UnescapeQuotes(SubSeq(s, 3, Len(s)))
    ELSE IF s = <<>> THEN <<>>
    ELSE <<Head(s)>> \o UnescapeQuotes(Tail(s))

normalizeCreateTableColumnName_KeepCase(name) == trimIdentQuotes(TrimSpace(name))

normalizeCreateTableColumnName(name) ==
    IF TrimSpace(name) = <<>> THEN <<>>
    ELSE IF /\ Len(TrimSpace(name)) >= 2
            /\ Head(TrimSpace(name)) = "\""
            /\ TrimSpace(name)[Len(TrimSpace(name))] = "\""
    THEN UnescapeQuotes(SubSeq(TrimSpace(name), 2, Len(TrimSpace(name)) - 1))
    ELSE ToLower(trimIdentQuotes(TrimSpace(name)))

\* The offset of the quote that closes the quoted name opened at runes[0],
\* -1 if none does; called with i = 1.
RECURSIVE ClosingQuote(_, _)
ClosingQuote(runes, i) ==
    IF i >= Len(runes) THEN -1
    ELSE IF runes[i + 1] # "\"" THEN ClosingQuote(runes, i + 1)
    ELSE IF At(runes, i + 1) = "\"" THEN ClosingQuote(runes, i + 2)
    ELSE i

\* The offset of the first space, comma or parenthesis from i on.
RECURSIVE TokenEnd(_, _)
TokenEnd(runes, i) ==
    IF i < Len(runes) /\ ~IsUnicodeSpace(runes[i + 1])
                      /\ runes[i + 1] \notin {",", "(", ")"}
    THEN TokenEnd(runes, i + 1) ELSE i

readLeadingIdentifierToken(s) ==
    IF TrimSpace(s) = <<>> THEN <<>>
    ELSE IF Head(TrimSpace(s)) = "\""
    THEN (IF ClosingQuote(TrimSpace(s), 1) < 0 THEN <<>>
          ELSE Slice(TrimSpace(s), 0, ClosingQuote(TrimSpace(s), 1) + 1))
    ELSE Slice(TrimSpace(s), 0, TokenEnd(TrimSpace(s), 0))

W_CONSTRAINT == <<"C", "O", "N", "S", "T", "R", "A", "I", "N", "T">>
W_PRIMARY == <<"P", "R", "I", "M", "A", "R", "Y">>
W_UNIQUE == <<"U", "N", "I", "Q", "U", "E">>
W_FOREIGN == <<"F", "O", "R", "E", "I", "G", "N">>
W_CHECK == <<"C", "H", "E", "C", "K">>
W_EXCLUDE == <<"E", "X", "C", "L", "U", "D", "E">>
W_LIKE == <<"L", "I", "K", "E">>

ConstraintKeywords_NoCheck ==
    {W_CONSTRAINT, W_PRIMARY, W_UNIQUE, W_FOREIGN, W_EXCLUDE, W_LIKE}

ConstraintKeywords ==
    {W_CONSTRAINT, W_PRIMARY, W_UNIQUE, W_FOREIGN, W_CHECK, W_EXCLUDE, W_LIKE}

isCreateTableConstraintToken(token) ==
    ToUpper(trimIdentQuotes(TrimSpace(token))) \in ConstraintKeywords

extractCreateTableColumnNameFromElement(element) ==
    IF TrimSpace(element) = <<>> THEN <<>>
    ELSE IF readLeadingIdentifierToken(TrimSpace(element)) = <<>> THEN <<>>
    ELSE IF isCreateTableConstraintToken(readLeadingIdentifierToken(TrimSpace(element)))
    THEN <<>>
    ELSE readLeadingIdentifierToken(TrimSpace(element))

\* The trimmed non-empty lines of an element's comments.
RECURSIVE CommentLines(_)
CommentLines(comments) ==
    IF comments = <<>> THEN <<>>
    ELSE IF TrimSpace(Head(comments)) = <<>> THEN CommentLines(Tail(comments))
    ELSE <<TrimSpace(Head(comments))>> \o CommentLines(Tail(comments))

\* commentsByColumn[key] = lines.
Put(map, key, lines) ==
    [k \in DOMAIN map \cup {key} |-> IF k = key THEN lines ELSE map[k]]

EmptyMap == [k \in {} |-> <<>>]

\* One turn of the loop over the elements.
commentsOfElement(commentsByColumn, elem) ==
    IF Len(elem.comments) = 0 THEN commentsByColumn
    ELSE IF extractCreateTableColumnNameFromElement(elem.element) = <<>>
    THEN commentsByColumn
    ELSE IF normalizeCreateTableColumnName(
                extractCreateTableColumnNameFromElement(elem.element)) = <<>>
    THEN commentsByColumn
    ELSE IF CommentLines(elem.comments) = <<>> THEN commentsByColumn
    ELSE Put(commentsByColumn,
             normalizeCreateTableColumnName(
                 extractCreateTableColumnNameFromElement(elem.element)),
             CommentLines(elem.comments))

RECURSIVE commentsOfElements(_, _)
commentsOfElements(commentsByColumn, elements) ==
    IF elements = <<>> THEN commentsByColumn
    ELSE commentsOfElements(commentsOfElement(commentsByColumn, Head(elements)),
                            Tail(elements))

\* nil is the empty map.
extractCreateTableFieldCommentsByColumn(createStmtSQL) ==
    IF extractCreateTableBody(createStmtSQL) = <<>> THEN EmptyMap
    ELSE commentsOfElements(EmptyMap,
             splitCreateTableElementsWithComments(
                 extractCreateTableBody(createStmtSQL)))

----------------------------------------------------------------------------
\* Qualified names.

\* strings.Join(parts, ".").
RECURSIVE JoinDot(_)
JoinDot(parts) ==
    IF parts = <<>> THEN <<>>
    ELSE IF Len(parts) = 1 THEN parts[1]
    ELSE Head(parts) \o <<".">> \o JoinDot(Tail(parts))

\* The scan of splitQuotedDot from offset i: parts cut so far, the part being
\* read and whether the scan is inside double quotes.
RECURSIVE dotLoop(_, _, _, _, _)
dotLoop(s, i, parts, cur, inQuote) ==
    IF i >= Len(s) THEN Append(parts, TrimSpace(cur))
    ELSE IF s[i + 1] = "\"" /\ inQuote /\ At(s, i + 1) = "\""
    THEN dotLoop(s, i + 2, parts, cur \o <<"\"", "\"">>, inQuote)
    ELSE IF s[i + 1] = "\""
    THEN dotLoop(s, i + 1, parts, Append(cur, "\""), ~inQuote)
    ELSE IF s[i + 1] = "." /\ ~inQuote
    THEN dotLoop(s, i + 1, Append(parts, TrimSpace(cur)), <<>>, inQuote)
    ELSE dotLoop(s, i + 1, parts, Append(cur, s[i + 1]), inQuote)

\* The parts of a name between the dots outside double quotes, trimmed, their
\* quotes kept; no parts for the empty name.
splitQuotedDot(s) == IF s = <<>> THEN <<>> ELSE dotLoop(s, 0, <<>>, <<>>, FALSE)

QualifiedColumn(schema, table, column) ==
    [schema |-> schema, table |-> table, column |-> column]

\* parts split as the code splits them.
columnNameOfParts(parts) ==
    IF Len(parts) = 0 THEN QualifiedColumn(<<>>, <<>>, <<>>)
    ELSE IF Len(parts) = 1
    THEN QualifiedColumn(<<>>, <<>>, TrimSpace(parts[Len(parts)]))
    ELSE IF Len(parts) = 2
    THEN QualifiedColumn(<<>>, TrimSpace(parts[Len(parts) - 1]),
                         TrimSpace(parts[Len(parts)]))
    ELSE QualifiedColumn(
             TrimSpace(JoinDot(SubSeq(parts, 1, Len(parts) - 2))),
             TrimSpace(parts[Len(parts) - 1]),
             TrimSpace(parts[Len(parts)]))

splitQualifiedColumnName_TableAsSchema(name) ==
    IF Len(splitQuotedDot(TrimSpace(name))) = 2
    THEN QualifiedColumn(splitQuotedDot(TrimSpace(name))[1], <<>>,
                         splitQuotedDot(TrimSpace(name))[2])
    ELSE columnNameOfParts(splitQuotedDot(TrimSpace(name)))

splitQualifiedColumnName_NearestSchema(name) ==
    IF Len(splitQuotedDot(TrimSpace(name))) > 3
    THEN columnNameOfParts(Tail(splitQuotedDot(TrimSpace(name))))
    ELSE columnNameOfParts(splitQuotedDot(TrimSpace(name)))

splitQualifiedColumnName(name) == columnNameOfParts(splitQuotedDot(TrimSpace(name)))

----------------------------------------------------------------------------
\* String literals of COMMENT ON.

Decoded(val, ok) == [val |-> val, ok |-> ok]

HasPrefix(s, prefix) ==
    Len(s) >= Len(prefix) /\ SubSeq(s, 1, Len(prefix)) = prefix

HasSuffix(s, suffix) ==
    Len(s) >= Len(suffix) /\ SubSeq(s, Len(s) - Len(suffix) + 1, Len(s)) = suffix

\* strings.ReplaceAll(s, "''", "'").
RECURSIVE UnescapeSingleQuotes(_)
UnescapeSingleQuotes(s) ==
    IF s = <<>> THEN <<>>
    ELSE IF Len(s) >= 2 /\ s[1] = "'" /\ s[2] = "'"
    THEN <<"'">> \o UnescapeSingleQuotes(SubSeq(s, 3, Len(s)))
    ELSE <<Head(s)>> \o UnescapeSingleQuotes(Tail(s))

decodeSingleQuoted_KeepDoubled(raw) ==
    IF Len(raw) < 2 \/ raw[1] # "'" \/ raw[Len(raw)] # "'"
    THEN Decoded(<<>>, FALSE)
    ELSE Decoded(SubSeq(raw, 2, Len(raw) - 1), TRUE)

decodeSingleQuoted_AnyOpening(raw) ==
    IF Len(raw) < 2 \/ raw[Len(raw)] # "'"
    THEN Decoded(<<>>, FALSE)
    ELSE Decoded(UnescapeSingleQuotes(SubSeq(raw, 2, Len(raw) - 1)), TRUE)

decodeSingleQuoted(raw) ==
    IF Len(raw) < 2 \/ raw[1] # "'" \/ raw[Len(raw)] # "'"
    THEN Decoded(<<>>, FALSE)
    ELSE Decoded(UnescapeSingleQuotes(SubSeq(raw, 2, Len(raw) - 1)), TRUE)

\* The backspace character.
Backspace == "<BS>"

\* The character after the backslash and what the pair is replaced by.
escapedStringReplacer ==
    {<<"\\", "\\">>, <<"'", "'">>, <<"n", "\n">>, <<"r", "\r">>,
     <<"t", "\t">>, <<"b", Backspace>>, <<"f", "\f">>}

Escapes == {pair[1] : pair \in escapedStringReplacer}

Replacement(c) == (CHOOSE pair \in escapedStringReplacer : pair[1] = c)[2]

decodeEscapedString_Verbatim(raw) == raw

RECURSIVE decodeEscapedString(_)
decodeEscapedString(raw) ==
    IF raw = <<>> THEN <<>>
    ELSE IF Len(raw) >= 2 /\ raw[1] = "\\" /\ raw[2] \in Escapes
    THEN <<Replacement(raw[2])>> \o decodeEscapedString(SubSeq(raw, 3, Len(raw)))
    ELSE <<Head(raw)>> \o decodeEscapedString(Tail(raw))

\* strings.IndexByte(s, c): the offset of the first c, -1 if none.
RECURSIVE IndexFrom(_, _, _)
IndexFrom(s, c, i) ==
    IF i >= Len(s) THEN -1
    ELSE IF s[i + 1] = c THEN i
    ELSE IndexFrom(s, c, i + 1)

IndexByte(s, c) == IndexFrom(s, c, 0)

\* The body between the delimiters, the delimiter being raw[:delimLen].
dollarBody_AnyClosing(raw, delimLen) ==
    IF Len(raw) < delimLen * 2
    THEN Decoded(<<>>, FALSE)
    ELSE Decoded(Slice(raw, delimLen, Len(raw) - delimLen), TRUE)

dollarBody(raw, delimLen) ==
    IF Len(raw) < delimLen * 2 \/ ~HasSuffix(raw, SubSeq(raw, 1, delimLen))
    THEN Decoded(<<>>, FALSE)
    ELSE Decoded(Slice(raw, delimLen, Len(raw) - delimLen), TRUE)

decodeDollarQuotedString(raw) ==
    IF raw = <<>> \/ raw[1] # "$" THEN Decoded(<<>>, FALSE)
    ELSE IF IndexByte(Tail(raw), "$") < 0 THEN Decoded(<<>>, FALSE)
    ELSE dollarBody(raw, IndexByte(Tail(raw), "$") + 2)

\* The switch on the prefix and the plain form, for a trimmed text.
decodeQuotedForms(trimmed) ==
    IF \/ HasPrefix(ToUpper(trimmed), <<"E", "'">>)
       \/ HasPrefix(ToUpper(trimmed), <<"N", "'">>)
    THEN (IF ~decodeSingleQuoted(Tail(trimmed)).ok THEN trimmed
          ELSE decodeEscapedString(decodeSingleQuoted(Tail(trimmed)).val))
    ELSE IF HasPrefix(ToUpper(trimmed), <<"U", "&", "'">>)
    THEN (IF ~decodeSingleQuoted(Tail(Tail(trimmed))).ok THEN trimmed
          ELSE decodeSingleQuoted(Tail(Tail(trimmed))).val)
    ELSE IF decodeSingleQuoted(trimmed).ok THEN decodeSingleQuoted(trimmed).val
    ELSE trimmed

decodeCommentStringLiteral(raw) ==
    IF TrimSpace(raw) = <<>> THEN <<>>
    ELSE IF /\ HasPrefix(TrimSpace(raw), <<"$">>)
            /\ decodeDollarQuotedString(TrimSpace(raw)).ok
    THEN decodeDollarQuotedString(TrimSpace(raw)).val
    ELSE decodeQuotedForms(TrimSpace(raw))

----------------------------------------------------------------------------
\* The entry points.

ParseWarningCodeSyntaxError == "SYNTAX_ERROR"

\* A WarningMessage that puts the column before the line.
WarningMessage_ColumnFirst(syntaxErr) ==
    "line " \o ToString(syntaxErr.Column) \o ":" \o ToString(syntaxErr.Line)
    \o " " \o syntaxErr.Message

\* fmt.Sprintf("line %d:%d %s", Line, Column, Message)
WarningMessage(syntaxErr) ==
    "line " \o ToString(syntaxErr.Line) \o ":" \o ToString(syntaxErr.Column)
    \o " " \o syntaxErr.Message

\* A StatementEntry that numbers the entries from 0.
StatementEntry_ZeroBased(state, i) ==
    LET stmtSQL == statementText(state.cleanSQL, state.stmts[i])
        ir == parseStatementToIR(state.stmts[i], state.stream, stmtSQL)
    IN [Index |-> i - 1, RawSQL |-> stmtSQL,
        Query |-> IF stmtSQL = <<>> \/ ir.err # Nil THEN Nil ELSE ir.val,
        Warnings |-> <<>>]

\* A StatementEntry that runs the extraction on an empty statement text too.
StatementEntry_ExtractEmpty(state, i) ==
    LET stmtSQL == statementText(state.cleanSQL, state.stmts[i])
        ir == parseStatementToIR(state.stmts[i], state.stream, stmtSQL)
    IN [Index |-> i, RawSQL |-> stmtSQL,
        Query |-> IF ir.err # Nil THEN Nil ELSE ir.val,
        Warnings |-> <<>>]

\* The first loop of ParseSQLAll: the entry of statement i (1-based here).
StatementEntry(state, i) ==
    LET stmtSQL == statementText(state.cleanSQL, state.stmts[i])
        ir == parseStatementToIR(state.stmts[i], state.stream, stmtSQL)
    IN [Index |-> i, RawSQL |-> stmtSQL,
        Query |-> IF stmtSQL = <<>> \/ ir.err # Nil THEN Nil ELSE ir.val,
        Warnings |-> <<>>]

\* The second loop of ParseSQLAll, from error k on: each syntax error that
\* maps to an entry is appended to that entry's warnings.
RECURSIVE AttachWarnings(_, _, _, _)
AttachWarnings(statements, ss, syntaxErrors, k) ==
    IF k > Len(syntaxErrors) THEN statements
    ELSE LET idx == statementIndexForSyntaxError(ss, syntaxErrors[k])
         IN IF idx < 0 \/ idx >= Len(statements)
            THEN AttachWarnings(statements, ss, syntaxErrors, k + 1)
            ELSE AttachWarnings(
                    [statements EXCEPT ![idx + 1].Warnings =
                        Append(@, [Code |-> ParseWarningCodeSyntaxError,
                                   Message |-> WarningMessage(syntaxErrors[k])])],
                    ss, syntaxErrors, k + 1)

ParsedCount(statements) ==
    Cardinality({i \in 1..Len(statements) : statements[i].Query # Nil})

\* A ComputeHasFailures that looks at the parsed count only.
ComputeHasFailures_CountOnly(statements, parsedCount) ==
    parsedCount # Len(statements)

ComputeHasFailures(statements, parsedCount) ==
    \/ parsedCount # Len(statements)
    \/ \E i \in 1..Len(statements) : Len(statements[i].Warnings) > 0

\* A ParseSQLAll that gives up at the first statement whose extraction fails.
ParseSQLAllOf_AbortOnFailure(p) ==
    LET prep == prepareParseState(p, TRUE)
        state == prep.state
        entries == [i \in 1..Len(state.stmts) |-> StatementEntry(state, i)]
        statements == AttachWarnings(entries, state.stmts, state.syntaxErrors, 1)
        parsedCount == ParsedCount(entries)
    IN IF prep.err # Nil THEN [val |-> Nil, err |-> prep.err]
       ELSE IF parsedCount # Len(entries)
       THEN [val |-> Nil, err |-> [kind |-> "wrapped", cause |-> ErrNilContext]]
       ELSE [val |-> [kind |-> "ParseBatchResult",
                      Statements |-> statements,
                      TotalStatements |-> Len(statements),
                      ParsedStatements |-> parsedCount,
                      HasFailures |-> ComputeHasFailures(statements, parsedCount)],
             err |-> Nil]

ParseSQLAllOf(p) ==
    LET prep == prepareParseState(p, TRUE)
        state == prep.state
        entries == [i \in 1..Len(state.stmts) |-> StatementEntry(state, i)]
        statements == AttachWarnings(entries, state.stmts, state.syntaxErrors, 1)
        parsedCount == ParsedCount(entries)
    IN IF prep.err # Nil THEN [val |-> Nil, err |-> prep.err]
       ELSE [val |-> [kind |-> "ParseBatchResult",
                      Statements |-> statements,
                      TotalStatements |-> Len(statements),
                      ParsedStatements |-> parsedCount,
                      HasFailures |-> ComputeHasFailures(statements, parsedCount)],
             err |-> Nil]

\* A ParseSQL that extracts the last statement.
ParseSQLOf_LastStatement(p) ==
    LET prep == prepareParseState(p, FALSE)
        state == prep.state
    IN IF prep.err # Nil THEN [val |-> Nil, err |-> prep.err]
       ELSE parseStatementToIR(state.stmts[Len(state.stmts)], state.stream,
                               state.cleanSQL)

ParseSQLOf(p) ==
    LET prep == prepareParseState(p, FALSE)
        state == prep.state
    IN IF prep.err # Nil THEN [val |-> Nil, err |-> prep.err]
       ELSE parseStatementToIR(state.stmts[1], state.stream, state.cleanSQL)

\* A ParseSQLStrict that lets a pair of statements through.
ParseSQLStrictOf_AllowTwo(p) ==
    LET prep == prepareParseState(p, FALSE)
        state == prep.state
    IN IF prep.err # Nil THEN [val |-> Nil, err |-> prep.err]
       ELSE IF Len(state.stmts) > 2
       THEN [val |-> Nil, err |-> MultipleStatementsError(Len(state.stmts))]
       ELSE parseStatementToIR(state.stmts[1], state.stream, state.cleanSQL)

ParseSQLStrictOf(p) ==
    LET prep == prepareParseState(p, FALSE)
        state == prep.state
    IN IF prep.err # Nil THEN [val |-> Nil, err |-> prep.err]
       ELSE IF Len(state.stmts) > 1
       THEN [val |-> Nil, err |-> MultipleStatementsError(Len(state.stmts))]
       ELSE parseStatementToIR(state.stmts[1], state.stream, state.cleanSQL)

----------------------------------------------------------------------------
\* The state machine: one input with the parser's outcome for it, then one
\* call of an entry point.

Parsed == Parse(cleanSQL, stream, root, stmts, errs)

NoCall == [val |-> Nil, err |-> Nil]

Init ==
    \E n \in 0..MaxStmts :
    \E forms \in [1..n -> StmtForms] :
    \E seps \in [1..(n - 1) -> SepSpaces] :
    \E lead \in LeadSpaces :
    \E pieces \in {Pieces(forms, seps, lead)} :
    \E text \in {SourceText(pieces)} :
    \E toks \in {Lex(pieces, 0, 1, 0, 0)} :
    \E ss \in {[i \in 1..n |-> StmtContext(toks, i, forms[i])]} :
    \E rt \in RootShapes(n) :
    \E reports \in ReportSeqs(ErrorReports(text, toks), MaxErrs) :
        /\ cleanSQL = text
        /\ stream = toks
        /\ root = rt
        /\ stmts = ss
        /\ errs = Listen(<<>>, reports)
        /\ op = "none"
        /\ ret = NoCall

ParseSQL ==
    /\ op = "none"
    /\ op' = "ParseSQL"
    /\ ret' = ParseSQLOf(Parsed)
    /\ UNCHANGED <<cleanSQL, stream, root, stmts, errs>>

ParseSQLAll ==
    /\ op = "none"
    /\ op' = "ParseSQLAll"
    /\ ret' = ParseSQLAllOf(Parsed)
    /\ UNCHANGED <<cleanSQL, stream, root, stmts, errs>>

ParseSQLStrict ==
    /\ op = "none"
    /\ op' = "ParseSQLStrict"
    /\ ret' = ParseSQLStrictOf(Parsed)
    /\ UNCHANGED <<cleanSQL, stream, root, stmts, errs>>

Next == ParseSQL \/ ParseSQLAll \/ ParseSQLStrict

Spec == Init /\ [][Next]_vars

----------------------------------------------------------------------------
\* The entry points over statement nodes of every shape the parser's error
\* recovery can leave behind.

MaxNodeStmts == 2
MaxNodeErrs == 1

\* A node as usual; a node that was entered and left without consuming a
\* token (its stop token is the token before its start token, or none at
\* the start of the input); a node without tokens.
NodeShapes == {"normal", "consumedNothing", "noTokens"}

ShapedContext(toks, c, shape) ==
    CASE shape = "normal" -> c
      [] shape = "consumedNothing" ->
            [start |-> c.start,
             stop |-> IF c.start.index = 0 THEN NilToken
                      ELSE toks[c.start.index],
             node |-> "none", populateErr |-> FALSE]
      [] OTHER ->
            [start |-> NilToken, stop |-> NilToken,
             node |-> "none", populateErr |-> FALSE]

InitNodes ==
    \E n \in 1..MaxNodeStmts :
    \E forms \in [1..n -> StmtForms] :
    \E shapes \in [1..n -> NodeShapes] :
    \E seps \in [1..(n - 1) -> SepSpaces] :
    \E pieces \in {Pieces(forms, seps, <<>>)} :
    \E text \in {SourceText(pieces)} :
    \E toks \in {Lex(pieces, 0, 1, 0, 0)} :
    \E ss \in {[i \in 1..n |->
                  ShapedContext(toks, StmtContext(toks, i, forms[i]),
                                shapes[i])]} :
    \E reports \in ReportSeqs(ErrorReports(text, toks), MaxNodeErrs) :
        /\ cleanSQL = text
        /\ stream = toks
        /\ root = "ok"
        /\ stmts = ss
        /\ errs = Listen(<<>>, reports)
        /\ op = "none"
        /\ ret = NoCall

SpecNodes == InitNodes /\ [][Next]_vars

----------------------------------------------------------------------------
\* shouldRecoverUtilityParseError on its own: the statement texts and the
\* syntax-error lists it is handed.

MaxColumn == 12
MaxRecoverErrs == 2

W_on == <<"o", "n">>

RecoverLeads == {<<>>, <<"\n">>}
RecoverKeywords == {W_SET, W_SHOW}
RecoverOperators == {<<" ", "=", " ">>, <<"=">>, <<" ", "=", "\n">>}
RecoverValues == {W_info, W_on}
RecoverTails == {<<>>, <<";">>, <<" ", "x">>, <<";", " ">> \o W_SET}

RecoverTexts ==
    {lead \o kw \o <<" ", "f">> \o operator \o value \o tail :
        lead \in RecoverLeads, kw \in RecoverKeywords,
        operator \in RecoverOperators, value \in RecoverValues,
        tail \in RecoverTails}

\* Syntax errors as a caller may hand them over: on either line of the
\* text, at any column, in the order of their places.
RecoverReports ==
    {[sym |-> NilToken, line |-> l, column |-> c, msg |-> "syntax error"] :
        l \in 1..2, c \in 0..MaxColumn}

InitRecover ==
    \E text \in RecoverTexts :
    \E reports \in ReportSeqs(RecoverReports, MaxRecoverErrs) :
        /\ cleanSQL = text
        /\ stream = <<>>
        /\ root = "ok"
        /\ stmts = <<>>
        /\ errs = Listen(<<>>, reports)
        /\ op = "none"
        /\ ret = NoCall

ShouldRecover ==
    /\ op = "none"
    /\ op' = "shouldRecoverUtilityParseError"
    /\ ret' = [val |-> shouldRecoverUtilityParseError(cleanSQL, errs),
               err |-> Nil]
    /\ UNCHANGED <<cleanSQL, stream, root, stmts, errs>>

NextRecover == ShouldRecover

SpecRecover == InitRecover /\ [][NextRecover]_vars

----------------------------------------------------------------------------
\* shouldRecoverUtilityParseError over statement texts of every shape: other
\* first words, scope keywords, operators, values and leftovers.

MaxShapeColumn == 22
MaxShapeErrs == 1

W_set == <<"s", "e", "t">>
W_SETTINGS == <<"S", "E", "T", "T", "I", "N", "G", "S">>

ShapeKeywords == {W_SET, W_set, W_SHOW, W_RESET, W_SETTINGS, W_SELECT}
ShapeScopes == {<<>>, W_SESSION \o <<" ">>,
                W_SESSION \o <<" ">> \o W_LOCAL \o <<" ">>,
                W_LOCAL \o <<" ">> \o W_SESSION \o <<" ">>}
ShapeOperators == {<<" ", "=", " ">>, <<" ">> \o W_TO \o <<" ">>, <<" ">>}
ShapeValues == {W_info, W_ERROR, W_on}
ShapeTails == {<<>>, <<";">>, <<" ", "x">>, <<"!">>, <<";", " ">> \o W_SET}

ShapeTexts ==
    {kw \o <<" ">> \o scope \o <<"f">> \o operator \o value \o tail :
        kw \in ShapeKeywords, scope \in ShapeScopes,
        operator \in ShapeOperators, value \in ShapeValues,
        tail \in ShapeTails}

ShapeReports ==
    {[sym |-> NilToken, line |-> 1, column |-> c, msg |-> "syntax error"] :
        c \in 0..MaxShapeColumn}

InitShape ==
    \E text \in ShapeTexts :
    \E reports \in ReportSeqs(ShapeReports, MaxShapeErrs) :
        /\ cleanSQL = text
        /\ stream = <<>>
        /\ root = "ok"
        /\ stmts = <<>>
        /\ errs = Listen(<<>>, reports)
        /\ op = "none"
        /\ ret = NoCall

SpecShape == InitShape /\ [][NextRecover]_vars

----------------------------------------------------------------------------
\* The CREATE TABLE scanners over statements written from elements: cleanSQL
\* is the statement, stream the elements its body was written from.  An
\* element is line and block comments (lead) followed by a content; elements
\* are joined by commas.

MaxElements == 2

\* A line comment whose trimmed text is c, with its line end.
LineComment(c) ==
    [kind |-> "lineComment", comment |-> c,
     text |-> <<"-", "-", " ">> \o c \o <<" ", "\n">>]

\* A block comment that holds a comma and two dashes.
BlockComment ==
    [kind |-> "blockComment", comment |-> <<>>,
     text |-> <<"/", "*", "-", "-", "x", ",", "*", "/">>]

Code(text) == [kind |-> "code", comment |-> <<>>, text |-> text]

ElementLeads ==
    {<<>>,
     <<LineComment(<<"c">>)>>,
     <<LineComment(<<>>), LineComment(<<"d">>)>>,
     <<LineComment(<<"c">>), BlockComment, LineComment(<<"d", " ", "e">>)>>}

\* The contents: the pieces, the column the content defines (col, as the map
\* names it; <<>> if none) and whether it is a table constraint.
Content(pieces, col, constraint) ==
    [pieces |-> pieces, col |-> col, constraint |-> constraint]

ElementContents ==
    {Content(<<>>, <<>>, FALSE),
     Content(<<Code(<<"a", " ", "i">>)>>, <<"a">>, FALSE),
     Content(<<Code(<<"A", "(", "1", ",", "2", ")">>)>>, <<"a">>, FALSE),
     Content(<<Code(<<"\"", "B", "\"", " ", "i">>)>>, <<"B">>, FALSE),
     Content(<<Code(<<"b", " ", "'", "-", "-", ",", "'", "'", "'">>)>>,
             <<"b">>, FALSE),
     Content(<<Code(<<"b", " ", "$", "t", "$", ",", "'", "$", "t", "$">>)>>,
             <<"b">>, FALSE),
     Content(<<Code(<<"c", " ">>), LineComment(<<"t">>)>>, <<"c">>, FALSE),
     Content(<<Code(W_CHECK \o <<"(", "a", ",", "b", ")">>)>>, <<>>, TRUE),
     Content(<<Code(<<"\"">> \o ToLower(W_CHECK) \o <<"\"", " ", "i">>)>>,
             <<>>, TRUE),
     Content(<<Code(ToLower(W_PRIMARY) \o <<" ", "k">>)>>, <<>>, TRUE)}

RECURSIVE PieceTexts(_)
PieceTexts(pieces) ==
    IF pieces = <<>> THEN <<>> ELSE Head(pieces).text \o PieceTexts(Tail(pieces))

ElementText(e) == <<" ">> \o PieceTexts(e.lead) \o PieceTexts(e.content.pieces)

RECURSIVE BodyText(_)
BodyText(elements) ==
    IF elements = <<>> THEN <<>>
    ELSE IF Len(elements) = 1 THEN ElementText(elements[1])
    ELSE ElementText(Head(elements)) \o <<",">> \o BodyText(Tail(elements))

CreateTableText(elements) ==
    <<"C", "R", "E", "A", "T", "E", " ", "T", "A", "B", "L", "E", " ", "t", " ", "(">>
        \o BodyText(elements) \o <<")">>

InitSplit ==
    \E n \in 0..MaxElements :
    \E leads \in [1..n -> ElementLeads] :
    \E contents \in [1..n -> ElementContents] :
        /\ stream = [k \in 1..n |-> [lead |-> leads[k], content |-> contents[k]]]
        /\ cleanSQL \in {CreateTableText(
               [k \in 1..n |-> [lead |-> leads[k], content |-> contents[k]]])}
        /\ root = "ok"
        /\ stmts = <<>>
        /\ errs = <<>>
        /\ op = "none"
        /\ ret = NoCall

SplitElements ==
    /\ op = "none"
    /\ op' = "splitCreateTableElementsWithComments"
    /\ ret' = [val |-> splitCreateTableElementsWithComments(
                           extractCreateTableBody(cleanSQL)),
               err |-> Nil]
    /\ UNCHANGED <<cleanSQL, stream, root, stmts, errs>>

FieldComments ==
    /\ op = "none"
    /\ op' = "extractCreateTableFieldCommentsByColumn"
    /\ ret' = [val |-> extractCreateTableFieldCommentsByColumn(cleanSQL),
               err |-> Nil]
    /\ UNCHANGED <<cleanSQL, stream, root, stmts, errs>>

NextSplit == SplitElements \/ FieldComments

SpecSplit == InitSplit /\ [][NextSplit]_vars

----------------------------------------------------------------------------
\* The qualified-name splitters over names written from segments: cleanSQL is
\* the name, stream the segments it was written from, joined by dots.

MaxSegments == 4

\* A segment as written, and the parts it is made of for a splitter that cuts
\* at the dots outside double quotes.
Segment(text, parts) == [text |-> text, parts |-> parts]

NameSegments ==
    {Segment(<<"a">>, <<<<"a">>>>),
     Segment(<<"T", "b">>, <<<<"T", "b">>>>),
     Segment(<<"\"", "x", ".", "y", "\"">>, <<<<"\"", "x", ".", "y", "\"">>>>),
     Segment(<<"\"", "q", "\"", "\"", ".", "\"">>,
             <<<<"\"", "q", "\"", "\"", ".", "\"">>>>),
     Segment(<<"x", ".", "y">>, <<<<"x">>, <<"y">>>>)}

\* The white space around a dot and around the name.
NamePads == {<<>>, <<" ">>}

RECURSIVE NameText(_, _)
NameText(segments, pad) ==
    IF segments = <<>> THEN <<>>
    ELSE IF Len(segments) = 1 THEN segments[1].text
    ELSE Head(segments).text \o pad \o <<".">> \o pad
             \o NameText(Tail(segments), pad)

InitName ==
    \E n \in 0..MaxSegments :
    \E segments \in [1..n -> NameSegments] :
    \E pad \in NamePads, around \in NamePads :
        /\ stream = segments
        /\ cleanSQL = around \o NameText(segments, pad) \o around
        /\ root = "ok"
        /\ stmts = <<>>
        /\ errs = <<>>
        /\ op = "none"
        /\ ret = NoCall

SplitQuotedDot ==
    /\ op = "none"
    /\ op' = "splitQuotedDot"
    /\ ret' = [val |-> splitQuotedDot(TrimSpace(cleanSQL)), err |-> Nil]
    /\ UNCHANGED <<cleanSQL, stream, root, stmts, errs>>

SplitQualifiedColumnName ==
    /\ op = "none"
    /\ op' = "splitQualifiedColumnName"
    /\ ret' = [val |-> splitQualifiedColumnName(cleanSQL), err |-> Nil]
    /\ UNCHANGED <<cleanSQL, stream, root, stmts, errs>>

NextName == SplitQuotedDot \/ SplitQualifiedColumnName

SpecName == InitName /\ [][NextName]_vars

----------------------------------------------------------------------------
\* The literal decoder over literals written from pieces: cleanSQL is the raw
\* text, stream the pieces it was written from: an opener, the atoms of the
\* body and a closer.

MaxAtoms == 3

\* An opener or closer of the given form.
Delimiter(form, text) == [form |-> form, text |-> text]

LiteralOpeners ==
    {Delimiter("plain", <<"'">>),
     Delimiter("escape", <<"E", "'">>),
     Delimiter("escape", <<"n", "'">>),
     Delimiter("unicode", <<"u", "&", "'">>),
     Delimiter("other", <<"B", "'">>),
     Delimiter("dollar", <<"$", "$">>),
     Delimiter("dollar", <<"$", "t", "$">>)}

LiteralClosers ==
    {Delimiter("quote", <<"'">>),
     Delimiter("other", <<"'", "x">>),
     Delimiter("dollar", <<"$", "$">>),
     Delimiter("dollar", <<"$", "t", "$">>)}

\* A run of body characters as written, and what it stands for once doubled
\* quotes are collapsed (plain) and once the escapes are decoded too (esc).
Atom(text, plain, esc) == [text |-> text, plain |-> plain, esc |-> esc]

LiteralAtoms ==
    {Atom(<<"a">>, <<"a">>, <<"a">>),
     Atom(<<"'", "'">>, <<"'">>, <<"'">>),
     Atom(<<"\\", "\\">>, <<"\\", "\\">>, <<"\\">>),
     Atom(<<"\\", "'">>, <<"\\", "'">>, <<"'">>),
     Atom(<<"\\", "n", "\\", "r", "\\", "t">>,
          <<"\\", "n", "\\", "r", "\\", "t">>, <<"\n", "\r", "\t">>),
     Atom(<<"\\", "b", "\\", "f">>, <<"\\", "b", "\\", "f">>,
          <<Backspace, "\f">>),
     Atom(<<"\\", "x">>, <<"\\", "x">>, <<"\\", "x">>)}

LiteralPads == {<<>>, <<" ">>}

LiteralText(pieces) == PieceTexts(pieces)

InitLiteral ==
    \/ /\ stream = <<>>
       /\ cleanSQL \in LiteralPads
       /\ root = "ok" /\ stmts = <<>> /\ errs = <<>>
       /\ op = "none" /\ ret = NoCall
    \/ \E n \in 0..MaxAtoms :
       \E atoms \in [1..n -> LiteralAtoms] :
       \E opener \in LiteralOpeners, closer \in LiteralClosers :
       \E pad \in LiteralPads :
           /\ stream = <<opener>> \o atoms \o <<closer>>
           /\ cleanSQL = pad \o LiteralText(<<opener>> \o atoms \o <<closer>>) \o pad
           /\ root = "ok" /\ stmts = <<>> /\ errs = <<>>
           /\ op = "none" /\ ret = NoCall

DecodeLiteral ==
    /\ op = "none"
    /\ op' = "decodeCommentStringLiteral"
    /\ ret' = [val |-> decodeCommentStringLiteral(cleanSQL), err |-> Nil]
    /\ UNCHANGED <<cleanSQL, stream, root, stmts, errs>>

NextLiteral == DecodeLiteral

SpecLiteral == InitLiteral /\ [][NextLiteral]_vars

----------------------------------------------------------------------------
\* The literal decoder over quoted texts: stream is a text, cleanSQL the
\* single-quoted literal that denotes it.

MaxChars == 4

TextChars == {"a", "'", "\\", " "}

\* The text with every single quote doubled.
RECURSIVE DoubleQuotes(_)
DoubleQuotes(s) ==
    IF s = <<>> THEN <<>>
    ELSE IF Head(s) = "'" THEN <<"'", "'">> \o DoubleQuotes(Tail(s))
    ELSE <<Head(s)>> \o DoubleQuotes(Tail(s))

QuoteLiteral(s) == <<"'">> \o DoubleQuotes(s) \o <<"'">>

InitQuote ==
    \E n \in 0..MaxChars :
    \E s \in [1..n -> TextChars] :
        /\ stream = s
        /\ cleanSQL = QuoteLiteral(s)
        /\ root = "ok" /\ stmts = <<>> /\ errs = <<>>
        /\ op = "none" /\ ret = NoCall

SpecQuote == InitQuote /\ [][NextLiteral]_vars

----------------------------------------------------------------------------
\* The dollar-quoted decoder: stream is <<tag, body, other>> and cleanSQL the
\* text $tag$body$other$.

MaxBody == 4

DollarTags == {<<>>, <<"t">>, <<"t", "u">>}

BodyChars == {"a", "$", "t"}

DollarDelimiter(tag) == <<"$">> \o tag \o <<"$">>

InitDollar ==
    \E n \in 0..MaxBody :
    \E body \in [1..n -> BodyChars] :
    \E tag \in DollarTags, other \in DollarTags :
        /\ stream = <<tag, body, other>>
        /\ cleanSQL = DollarDelimiter(tag) \o body \o DollarDelimiter(other)
        /\ root = "ok" /\ stmts = <<>> /\ errs = <<>>
        /\ op = "none" /\ ret = NoCall

DecodeDollarQuoted ==
    /\ op = "none"
    /\ op' = "decodeDollarQuotedString"
    /\ ret' = [val |-> decodeDollarQuotedString(cleanSQL), err |-> Nil]
    /\ UNCHANGED <<cleanSQL, stream, root, stmts, errs>>

NextDollar == DecodeDollarQuoted \/ DecodeLiteral

SpecDollar == InitDollar /\ [][NextDollar]_vars

----------------------------------------------------------------------------
\* The literal decoder applied to its own result: cleanSQL is the text, and
\* stream holds the first result once the decoder has been applied to it.

MaxPlain == 4

PlainChars == {"a", "E", "'", "$", " "}

InitPlain ==
    \E n \in 0..MaxPlain :
    \E text \in [1..n -> PlainChars] :
        /\ stream = <<>>
        /\ cleanSQL = text
        /\ root = "ok" /\ stmts = <<>> /\ errs = <<>>
        /\ op = "none" /\ ret = NoCall

DecodeDecoded ==
    /\ op = "decodeCommentStringLiteral"
    /\ stream = <<>>
    /\ stream' = <<ret.val>>
    /\ ret' = [val |-> decodeCommentStringLiteral(ret.val), err |-> Nil]
    /\ UNCHANGED <<cleanSQL, root, stmts, errs, op>>

NextPlain == DecodeLiteral \/ DecodeDecoded

SpecPlain == InitPlain /\ [][NextPlain]_vars

----------------------------------------------------------------------------
\* SpecCalls: several calls of the entry points running at the same time.
\* Every variable holds one component per call.  A call allocates its token
\* stream and its error listener, the parser reports the syntax errors of
\* its input one at a time, and the call returns what its entry point
\* builds from the state it allocated.  The steps of the calls interleave
\* in every order.

MaxCalls == 2
MaxCallErrs == 1

Calls == 1..MaxCalls

CallEntries == {"ParseSQL", "ParseSQLAll"}

CallForms == {<<"select">>, <<"setLevel", "select">>}

\* The reports of a call's parser: at the first token and at the last one.
CallReports(text, toks) ==
    {r \in ErrorReports(text, toks) :
        r.sym = toks[1] \/ r.sym = toks[Len(toks)]}

\* What one call is about: its input, the tokens and statement nodes its
\* parser finds in it, and the syntax errors the parser reports.
CallInputs ==
    UNION {
        LET pieces == Pieces(forms, [k \in 1..(Len(forms) - 1) |-> <<" ">>], <<>>)
            text == SourceText(pieces)
            toks == Lex(pieces, 0, 1, 0, 0)
            ss == [k \in 1..Len(forms) |-> StmtContext(toks, k, forms[k])]
        IN {[text |-> text, toks |-> toks, nodes |-> ss, reports |-> reports]
               : reports \in ReportSeqs(CallReports(text, toks), MaxCallErrs)}
        : forms \in CallForms}

\* The error listener a call's parser reports to: the one the call made.
listenerOf_Shared(i) == 1

listenerOf(i) == i

CallResult(entry, p) ==
    IF entry = "ParseSQL" THEN ParseSQLOf(p) ELSE ParseSQLAllOf(p)

InitCalls ==
    \E inputs \in [Calls -> CallInputs] :
    \E entries \in [Calls -> CallEntries] :
        /\ cleanSQL = [i \in Calls |-> inputs[i].text]
        /\ root = [i \in Calls |-> inputs[i]]
        /\ stream = [i \in Calls |-> <<>>]
        /\ stmts = [i \in Calls |-> <<>>]
        /\ errs = [i \in Calls |-> <<>>]
        /\ op = [i \in Calls |-> [entry |-> entries[i], pc |-> "called", reported |-> 0]]
        /\ ret = [i \in Calls |-> NoCall]

\* The call makes its input stream, lexer, token stream, parser and listener.
CallAllocate(i) ==
    /\ op[i].pc = "called"
    /\ stream' = [stream EXCEPT ![i] = root[i].toks]
    /\ errs' = [errs EXCEPT ![listenerOf(i)] = <<>>]
    /\ op' = [op EXCEPT ![i].pc = "parsing"]
    /\ UNCHANGED <<cleanSQL, root, stmts, ret>>

\* The call's parser reports its next syntax error.
CallSyntaxError(i) ==
    /\ op[i].pc = "parsing"
    /\ op[i].reported < Len(root[i].reports)
    /\ errs' = [errs EXCEPT ![listenerOf(i)] =
                   ListenerSyntaxError(@, root[i].reports[op[i].reported + 1])]
    /\ op' = [op EXCEPT ![i].reported = @ + 1]
    /\ UNCHANGED <<cleanSQL, stream, root, stmts, ret>>

\* The parse is over: the call reads its statements and its listener and
\* returns the result of its entry point.
CallReturn(i) ==
    /\ op[i].pc = "parsing"
    /\ op[i].reported = Len(root[i].reports)
    /\ stmts' = [stmts EXCEPT ![i] = root[i].nodes]
    /\ ret' = [ret EXCEPT ![i] =
                  CallResult(op[i].entry,
                             Parse(cleanSQL[i], stream[i], "ok",
                                   root[i].nodes, errs[listenerOf(i)]))]
    /\ op' = [op EXCEPT ![i].pc = "returned"]
    /\ UNCHANGED <<cleanSQL, stream, root, errs>>

NextCalls == \E i \in Calls : CallAllocate(i) \/ CallSyntaxError(i) \/ CallReturn(i)

SpecCalls == InitCalls /\ [][NextCalls]_vars

----------------------------------------------------------------------------
\* SpecCorrelate: ParseSQLAll over inputs that start on the first or on the
\* second line, with statement nodes of every shape and the syntax errors
\* the parser can report on them.

MaxCorrelateStmts == 2
MaxCorrelateErrs == 2

InitCorrelate ==
    \E n \in 1..MaxCorrelateStmts :
    \E shapes \in [1..n -> NodeShapes] :
    \E seps \in [1..(n - 1) -> SepSpaces] :
    \E lead \in LeadSpaces :
    \E pieces \in {Pieces([i \in 1..n |-> "select"], seps, lead)} :
    \E text \in {SourceText(pieces)} :
    \E toks \in {Lex(pieces, 0, 1, 0, 0)} :
    \E ss \in {[i \in 1..n |->
                  ShapedContext(toks, StmtContext(toks, i, "select"),
                                shapes[i])]} :
    \E reports \in ReportSeqs(ErrorReports(text, toks), MaxCorrelateErrs) :
        /\ cleanSQL = text
        /\ stream = toks
        /\ root = "ok"
        /\ stmts = ss
        /\ errs = Listen(<<>>, reports)
        /\ op = "none"
        /\ ret = NoCall

NextCorrelate == ParseSQLAll

SpecCorrelate == InitCorrelate /\ [][NextCorrelate]_vars

----------------------------------------------------------------------------
\* SpecScan: the loop of splitCreateTableElementsWithComments turn by turn.
\* cleanSQL is the body, root the splitter, stream the offset i of the next
\* turn.  The bodies are short texts of commas, parentheses, quotes and
\* comment marks in every order.

MaxScanAtoms == 4

ScanAtoms ==
    {<<"a">>, <<",">>, <<"(">>, <<")">>, <<"'">>, <<"\"">>, <<"$", "$">>,
     <<"-", "-">>, <<"\n">>, <<"/", "*">>, <<"*", "/">>}

ScanBodies ==
    {Concat(t) : t \in UNION {[1..n -> ScanAtoms] : n \in 0..MaxScanAtoms}}

InitScan ==
    \E body \in ScanBodies :
        /\ cleanSQL = body
        /\ root = createTableElementSplitter
        /\ stream = 0
        /\ stmts = <<>>
        /\ errs = <<>>
        /\ op = "scanning"
        /\ ret = NoCall

\* One turn of the loop.
ScanTurn ==
    /\ op = "scanning"
    /\ stream < Len(cleanSQL)
    /\ root' = splitTurn(cleanSQL, stream, root).s
    /\ stream' = splitTurn(cleanSQL, stream, root).i
    /\ UNCHANGED <<cleanSQL, stmts, errs, op, ret>>

\* The loop is over: the last flush, and the elements are returned.
ScanReturn ==
    /\ op = "scanning"
    /\ stream >= Len(cleanSQL)
    /\ root' = IF Len(cleanSQL) = 0 THEN root ELSE flushCurrent(root)
    /\ op' = "splitCreateTableElementsWithComments"
    /\ ret' = [val |-> root'.elements, err |-> Nil]
    /\ UNCHANGED <<cleanSQL, stream, stmts, errs>>

NextScan == ScanTurn \/ ScanReturn

SpecScan == InitScan /\ [][NextScan]_vars

----------------------------------------------------------------------------
\* SpecColumn: a declared column and an entry of a table-level PRIMARY KEY
\* list, as the column names the grammar accepts: plain, in double quotes,
\* and in double quotes after U&.  stream holds the two names as written
\* down from their characters, cleanSQL their texts.

MaxNameChars == 2

NameForms == {"plain", "quoted", "unicode"}

ColumnIds ==
    UNION {
        {[form |-> "plain", chars |-> cs] : cs \in [1..n -> {"a", "A"}]}
        \cup
        {[form |-> f, chars |-> cs] :
            f \in {"quoted", "unicode"}, cs \in [1..n -> {"a", "A", "\""}]}
        : n \in 1..MaxNameChars}

RECURSIVE DoubleQuoteChars(_)
DoubleQuoteChars(s) ==
    IF s = <<>> THEN <<>>
    ELSE IF Head(s) = "\"" THEN <<"\"", "\"">> \o DoubleQuoteChars(Tail(s))
    ELSE <<Head(s)>> \o DoubleQuoteChars(Tail(s))

\* The text of a column name: quote characters inside quotes are doubled.
ColidText(id) ==
    IF id.form = "plain" THEN id.chars
    ELSE (IF id.form = "unicode" THEN <<"U", "&">> ELSE <<>>)
         \o <<"\"">> \o DoubleQuoteChars(id.chars) \o <<"\"">>

InitColumn ==
    \E declared \in ColumnIds :
    \E entry \in ColumnIds :
        /\ stream = <<declared, entry>>
        /\ cleanSQL = <<ColidText(declared), ColidText(entry)>>
        /\ root = {}
        /\ stmts = <<>>
        /\ errs = <<>>
        /\ op = "none"
        /\ ret = NoCall

\* collectCreateTablePrimaryKeyColumns over the one entry of the list.
CollectPrimaryKeyColumns ==
    /\ op = "none"
    /\ root' = {normalizeCreateTableColumnName(cleanSQL[2])}
    /\ op' = "collectCreateTablePrimaryKeyColumns"
    /\ UNCHANGED <<cleanSQL, stream, stmts, errs, ret>>

\* The declared column is looked up in the collected names.
MarkPrimaryKey ==
    /\ op = "collectCreateTablePrimaryKeyColumns"
    /\ op' = "populateCreateTable"
    /\ ret' = [val |-> normalizeCreateTableColumnName(cleanSQL[1]) \in root,
               err |-> Nil]
    /\ UNCHANGED <<cleanSQL, stream, root, stmts, errs>>

NextColumn == CollectPrimaryKeyColumns \/ MarkPrimaryKey

SpecColumn == InitColumn /\ [][NextColumn]_vars

----------------------------------------------------------------------------
\* Vocabulary of the claims.

\* The statement nodes the parse recovered.
Recovered == IF root = "ok" THEN stmts ELSE <<>>

Batch == ret.val

IsBatch == op = "ParseSQLAll" /\ ret.err = Nil

\* The source text from the first character of a node's first token to the
\* last character of its last token.
NodeText(i) == SubSeq(cleanSQL, stmts[i].start.from + 1, stmts[i].stop.to + 1)

\* Statement i has a sub-production with an extractor, and that extractor
\* returns an error.
ExtractionFails(i) ==
    stmts[i].populateErr /\ CommandOf(stmts[i].node) # "UNKNOWN"

\* Node i has no text: it has no first or no last token, or its last token
\* is before its first.
NodeEmpty(i) ==
    \/ stmts[i].start.nil
    \/ stmts[i].stop.nil
    \/ stmts[i].stop.index < stmts[i].start.index

\* C1: ParseSQLAll returns an error only when no statement node was
\* recovered; with at least one node it returns a batch with one entry per
\* node, in source order, however many syntax errors were collected and
\* however many statements fail extraction: a failing statement leaves only
\* its own entry's Query nil.
C1_BatchNeverAborts ==
    op = "ParseSQLAll" =>
        /\ ret.err # Nil => Len(Recovered) = 0
        /\ Len(Recovered) > 0 =>
              /\ ret.err = Nil
              /\ Batch.kind = "ParseBatchResult"
              /\ Len(Batch.Statements) = Len(Recovered)
              /\ \A i \in 1..Len(Recovered) :
                    /\ Batch.Statements[i].RawSQL = NodeText(i)
                    /\ (~ExtractionFails(i) /\ ~NodeEmpty(i)) =>
                          Batch.Statements[i].Query # Nil

C1_Witness ==
    /\ IsBatch
    /\ Len(stmts) = 3
    /\ Len(errs) = 2
    /\ ExtractionFails(1) /\ ExtractionFails(3) /\ ~ExtractionFails(2)
    /\ Batch.Statements[2].Query # Nil

\* Syntax error e arises from statement i: its offending token is a token of
\* the statement, or the token that follows the statement (the ';' or the
\* end of input at which the parser finds the statement incomplete).
ArisesFrom(e, i) ==
    /\ e.TokenIndex >= stmts[i].start.index
    /\ e.TokenIndex <= stmts[i].stop.index + 1

\* C2: in a batch of three statements where every collected syntax error
\* arises from the middle one, exactly the middle entry has warnings, all
\* with code SYNTAX_ERROR, for every layout of the statements across lines
\* and every offending token.
C2_MiddleOnlyWarned ==
    (/\ IsBatch
     /\ Len(stmts) = 3
     /\ Len(errs) > 0
     /\ \A k \in 1..Len(errs) : ArisesFrom(errs[k], 2))
    => /\ Batch.Statements[1].Warnings = <<>>
       /\ Batch.Statements[3].Warnings = <<>>
       /\ Batch.Statements[2].Warnings # <<>>
       /\ \A k \in 1..Len(Batch.Statements[2].Warnings) :
             Batch.Statements[2].Warnings[k].Code = "SYNTAX_ERROR"

\* C3: ParsedStatements is the number of entries with a Query, and
\* HasFailures holds exactly when some entry has no Query or has warnings.
C3_BatchCounters ==
    IsBatch =>
        /\ Batch.ParsedStatements =
              Cardinality({i \in 1..Len(Batch.Statements) :
                              Batch.Statements[i].Query # Nil})
        /\ Batch.HasFailures <=>
              \E i \in 1..Len(Batch.Statements) :
                  \/ Batch.Statements[i].Query = Nil
                  \/ Batch.Statements[i].Warnings # <<>>

C3_Witness ==
    /\ IsBatch
    /\ Len(stmts) = 2
    /\ Batch.ParsedStatements = 2
    /\ Batch.Statements[2].Warnings # <<>>
    /\ Batch.HasFailures

\* C4: the entries are numbered 1, 2, ... in order, with no gap and no
\* duplicate, and TotalStatements is the number of entries, which is the
\* number of recovered statement nodes.
C4_IndexIsPosition ==
    IsBatch =>
        /\ \A i \in 1..Len(Batch.Statements) : Batch.Statements[i].Index = i
        /\ Batch.TotalStatements = Len(Batch.Statements)
        /\ Batch.TotalStatements = Len(Recovered)

C4_Witness ==
    /\ IsBatch
    /\ Batch.TotalStatements = 3
    /\ Batch.Statements[3].Index = 3

C6_StrictOneStatement ==
    op = "ParseSQLStrict" =>
        /\ ret.err.kind = "MultipleStatementsError"
              <=> (Len(errs) = 0 /\ Len(Recovered) > 1)
        /\ ErrorsIs(ret.err, ErrMultipleStatements)
              <=> (Len(errs) = 0 /\ Len(Recovered) > 1)
        /\ ret.err.kind = "MultipleStatementsError" =>
              /\ ret.err.StatementCount = Len(Recovered)
              /\ ret.val = Nil
        /\ (Len(errs) = 0 /\ Len(Recovered) = 1) =>
              IF ExtractionFails(1)
              THEN ret.val = Nil /\ ErrorsIs(ret.err, ErrNilContext)
              ELSE /\ ret.err = Nil
                   /\ ret.val.kind = "ParsedQuery"
                   /\ ret.val.Command = CommandOf(stmts[1].node)
        /\ Len(errs) > 0 => ret.err.kind = "ParseErrors"

C6_Witness ==
    /\ op = "ParseSQLStrict"
    /\ Len(stmts) = 3
    /\ ret.err.kind = "MultipleStatementsError"
    /\ ret.err.StatementCount = 3

\* C7: in both modes ErrNoStatements is returned exactly when the parse
\* yields no statement node and no syntax error; with no statement node and
\* a syntax error the outcome is ParseErrors.
C7_NoStatements ==
    op # "none" =>
        /\ ret.err = ErrNoStatements
              <=> (Len(Recovered) = 0 /\ Len(errs) = 0)
        /\ (Len(Recovered) = 0 /\ Len(errs) > 0) =>
              /\ ret.val = Nil
              /\ ret.err.kind = "ParseErrors"

C7_Witness ==
    /\ op = "ParseSQLAll"
    /\ root = "ok"
    /\ Len(stmts) = 0
    /\ Len(errs) > 0
    /\ ret.err.kind = "ParseErrors"

\* C8: when ParseSQL or ParseSQLStrict collects syntax errors for an input
\* for which shouldRecoverUtilityParseError holds, the call succeeds with an
\* UNKNOWN result whose RawSQL is the input, and no error.
C8_StrictRecovers ==
    (/\ op \in {"ParseSQL", "ParseSQLStrict"}
     /\ Len(errs) > 0
     /\ shouldRecoverUtilityParseError(cleanSQL, errs))
    => /\ ret.err = Nil
       /\ ret.val.kind = "ParsedQuery"
       /\ ret.val.Command = "UNKNOWN"
       /\ ret.val.RawSQL = cleanSQL

\* Statement i is SET <name> = <log level>.
IsSetLogLevel(i) ==
    LET shape == parseSetRecoveryShape(NodeText(i))
    IN shape.ok /\ shape.rhsToken \in recoverableSetLevels

\* The syntax errors are those of the grammar's gap and no others: each is
\* at the value token of a SET <name> = <log level> statement.
OnlyGrammarGapErrors ==
    /\ Len(errs) > 0
    /\ \A k \in 1..Len(errs) :
          \E i \in 1..Len(stmts) :
              IsSetLogLevel(i) /\ errs[k].TokenIndex = stmts[i].stop.index

\* C9: a batch of several statements that holds a SET <name> = <log level>
\* and is otherwise well formed has an UNKNOWN Query for that statement, no
\* SYNTAX_ERROR warning on any entry, HasFailures false and every statement
\* parsed.
C9_BatchSetLogLevel ==
    (/\ IsBatch
     /\ Len(stmts) > 1
     /\ OnlyGrammarGapErrors
     /\ \A i \in 1..Len(stmts) : ~ExtractionFails(i))
    => /\ \A i \in 1..Len(stmts) :
             /\ Batch.Statements[i].Warnings = <<>>
             /\ IsSetLogLevel(i) =>
                   /\ Batch.Statements[i].Query # Nil
                   /\ Batch.Statements[i].Query.Command = "UNKNOWN"
       /\ ~Batch.HasFailures
       /\ Batch.ParsedStatements = Batch.TotalStatements

\* The place of the value token of a SET statement: its line and the
\* columns from its first character to one past its last.
Recovers == op = "shouldRecoverUtilityParseError" /\ ret.val = TRUE

RhsShape == parseSetRecoveryShape(cleanSQL)

RhsPlace == lineAndColumnAtByteOffset(RhsShape.trimmed, RhsShape.rhsStart)

AtRhs(e) ==
    /\ e.Line = RhsPlace[1]
    /\ e.Column >= RhsPlace[2]
    /\ e.Column <= RhsPlace[2] + Len(RhsShape.rhsToken)

PassesChecks ==
    /\ detectUtilityCommandPrefix(cleanSQL) = "utilityCommandSet"
    /\ isSingleStatementUtilityCandidate(cleanSQL)
    /\ RhsShape.ok
    /\ RhsShape.rhsToken \in recoverableSetLevels

\* The statement without the white space around it and without its closing
\* ';': its last word is the value token.
StatementBody ==
    LET t == TrimSpace(cleanSQL)
    IN IF t # <<>> /\ t[Len(t)] = ";"
       THEN TrimSpace(SubSeq(t, 1, Len(t) - 1))
       ELSE t

\* The number of characters of the body before its last word.
ValueOffset ==
    LET breaks == {k \in 1..Len(StatementBody) : ~isWordChar(StatementBody[k])}
    IN IF breaks = {} THEN 0
       ELSE CHOOSE k \in breaks : \A j \in breaks : j <= k

ValueLength == Len(StatementBody) - ValueOffset

\* The 1-based line and the 0-based column of the value token, counted on
\* the trimmed text.
ValueLine ==
    1 + Cardinality({k \in 1..ValueOffset : StatementBody[k] = "\n"})

ValueColumn ==
    LET newlines == {k \in 1..ValueOffset : StatementBody[k] = "\n"}
    IN IF newlines = {} THEN ValueOffset
       ELSE ValueOffset - (CHOOSE k \in newlines : \A j \in newlines : j <= k)

AtValue(e) ==
    /\ e.Line = ValueLine
    /\ e.Column >= ValueColumn
    /\ e.Column <= ValueColumn + ValueLength

\* C11: for an input that passes the prefix, single-statement, shape and
\* value checks, shouldRecover returns true exactly when some supplied
\* syntax error is on the value token's line at a column from the token's
\* column to that column plus the token's length, both ends included; with
\* no error, or with errors only elsewhere, it returns false.
C11_RecoversIffErrorAtValue ==
    (op = "shouldRecoverUtilityParseError" /\ PassesChecks) =>
        (ret.val <=> \E k \in 1..Len(errs) : AtValue(errs[k]))

C11_Witness ==
    /\ op = "shouldRecoverUtilityParseError"
    /\ PassesChecks
    /\ ValueLine = 2
    /\ Len(errs) = 1
    /\ errs[1].Column = ValueColumn + ValueLength
    /\ ret.val = TRUE

\* The texts of the shape SET [SESSION | LOCAL] <setting-name> (= | TO)
\* <rhs-token> [;] among the inputs.
SetShapeTexts ==
    {kw \o <<" ">> \o scope \o <<"f">> \o operator \o value \o tail :
        kw \in {W_SET, W_set},
        scope \in {<<>>, W_SESSION \o <<" ">>, W_LOCAL \o <<" ">>},
        operator \in {<<" ", "=", " ">>, <<"=">>, <<" ", "=", "\n">>,
                      <<" ">> \o W_TO \o <<" ">>},
        value \in ShapeValues \cup RecoverValues,
        tail \in {<<>>, <<";">>}}

IsSetShape == TrimSpace(cleanSQL) \in SetShapeTexts

\* C12: shouldRecover returns false, whatever the errors, for every input
\* whose trimmed text is not of the shape SET [SESSION | LOCAL]
\* <setting-name> (= | TO) <rhs-token> [;]: with both scope keywords, with
\* anything left after the value and the optional ';', and with more than
\* one statement.
C12_RefusesOtherShapes ==
    (op = "shouldRecoverUtilityParseError" /\ ~IsSetShape) => ret.val = FALSE

C12_Witness ==
    /\ op = "shouldRecoverUtilityParseError"
    /\ cleanSQL = W_SET \o <<" ", "f", " ", "=", " ">> \o W_info \o <<" ", "x">>
    /\ Len(errs) = 1
    /\ errs[1].Column = 8
    /\ ret.val = FALSE

\* The first word of the trimmed input: its characters up to the first white
\* space.
FirstWord ==
    LET t == TrimSpace(cleanSQL)
        spaces == {k \in 1..Len(t) : isASCIISpace(t[k])}
    IN IF spaces = {} THEN t
       ELSE SubSeq(t, 1, (CHOOSE k \in spaces : \A j \in spaces : k <= j) - 1)

ValueToken == SubSeq(StatementBody, ValueOffset + 1, Len(StatementBody))

LogLevels == {W_WARNING, W_NOTICE, W_DEBUG, W_INFO, W_EXCEPTION, W_ERROR}

\* C13: shouldRecover returns true only if the first word of the trimmed
\* input is SET, whatever its case and as a whole word, and the value token
\* is, whatever its case, one of WARNING, NOTICE, DEBUG, INFO, EXCEPTION,
\* ERROR.
C13_OnlySetOfLogLevel ==
    Recovers =>
        /\ ToUpper(FirstWord) = W_SET
        /\ ToUpper(ValueToken) \in LogLevels

C13_Witness ==
    /\ Recovers
    /\ FirstWord = W_set
    /\ ValueToken = W_info

----------------------------------------------------------------------------
\* The CREATE TABLE scanners.

\* The elements of the body that have a content: the others are dropped.
RECURSIVE WrittenElements(_)
WrittenElements(elements) ==
    IF elements = <<>> THEN <<>>
    ELSE IF Head(elements).content.pieces = <<>>
    THEN WrittenElements(Tail(elements))
    ELSE <<Head(elements)>> \o WrittenElements(Tail(elements))

\* The non-empty texts of the line comments among the pieces, in order.
RECURSIVE LineCommentTexts(_)
LineCommentTexts(pieces) ==
    IF pieces = <<>> THEN <<>>
    ELSE IF Head(pieces).kind = "lineComment" /\ Head(pieces).comment # <<>>
    THEN <<Head(pieces).comment>> \o LineCommentTexts(Tail(pieces))
    ELSE LineCommentTexts(Tail(pieces))

Split == op = "splitCreateTableElementsWithComments"

\* C15: the splitter yields one element per written content, and the comments
\* of each are exactly the non-empty trimmed texts of the line comments met
\* before the element's content, in order: a line comment after the content,
\* a block comment, and the comments before a comma that no content precedes
\* are attached to nothing.
C15_CommentsBeforeContent ==
    Split =>
        /\ Len(ret.val) = Len(WrittenElements(stream))
        /\ \A k \in 1..Len(ret.val) :
               ret.val[k].comments = LineCommentTexts(WrittenElements(stream)[k].lead)

\* Two elements: line comments around a block comment before the first, a
\* line comment after the content of the second.
C15_Witness ==
    /\ Split
    /\ Len(stream) = 2
    /\ Len(ret.val) = 2
    /\ \E p \in DOMAIN stream[1].lead : stream[1].lead[p].kind = "blockComment"
    /\ Len(ret.val[1].comments) = 2
    /\ \E p \in DOMAIN stream[2].content.pieces :
           stream[2].content.pieces[p].kind = "lineComment"
    /\ ret.val[2].comments = LineCommentTexts(stream[2].lead)

Mapped == op = "extractCreateTableFieldCommentsByColumn"

\* The written elements that define a column and have comment lines.
CommentedColumns ==
    {k \in DOMAIN WrittenElements(stream) :
        /\ ~WrittenElements(stream)[k].content.constraint
        /\ LineCommentTexts(WrittenElements(stream)[k].lead) # <<>>}

\* C16: an element that starts with a constraint keyword, in any case and
\* quoted or not, yields no column name, and the comments before it reach no
\* column: every entry of the map is the comment lines of one element that
\* defines a column, under that column's name.
C16_ConstraintCommentsDropped ==
    /\ Split =>
           \A k \in DOMAIN ret.val :
               WrittenElements(stream)[k].content.constraint =>
                   extractCreateTableColumnNameFromElement(ret.val[k].element) = <<>>
    /\ Mapped =>
           \A key \in DOMAIN ret.val :
               \E k \in CommentedColumns :
                   /\ WrittenElements(stream)[k].content.col = key
                   /\ ret.val[key] = LineCommentTexts(WrittenElements(stream)[k].lead)

\* A commented quoted constraint keyword before a commented column: the map
\* holds the column alone.
C16_Witness ==
    /\ Mapped
    /\ Len(stream) = 2
    /\ stream[1].content.constraint
    /\ Head(PieceTexts(stream[1].content.pieces)) = "\""
    /\ LineCommentTexts(stream[1].lead) # <<>>
    /\ CommentedColumns = {2}
    /\ DOMAIN ret.val = {stream[2].content.col}

ColumnOf(k) == WrittenElements(stream)[k].content.col

CommentsOf(k) == LineCommentTexts(WrittenElements(stream)[k].lead)

----------------------------------------------------------------------------
\* Qualified names.

\* The parts of the name: those of its segments, in order.
RECURSIVE NameParts(_)
NameParts(segments) ==
    IF segments = <<>> THEN <<>>
    ELSE Head(segments).parts \o NameParts(Tail(segments))

Quoted(text) == text # <<>> /\ Head(text) = "\""

HasDot(text) == \E p \in DOMAIN text : text[p] = "."

ColumnSplit == op = "splitQualifiedColumnName"

\* C18: the column is the last part; one part leaves table and schema empty;
\* of two parts the first is the table and the schema is empty; of three or
\* more the table is the part before the last and the schema the parts before
\* it joined by dots.  Every dot outside double quotes separates parts.
C18_LastPartIsColumn ==
    ColumnSplit =>
        /\ Len(NameParts(stream)) = 0 =>
               ret.val = QualifiedColumn(<<>>, <<>>, <<>>)
        /\ Len(NameParts(stream)) >= 1 =>
               ret.val.column = NameParts(stream)[Len(NameParts(stream))]
        /\ Len(NameParts(stream)) = 1 =>
               ret.val.table = <<>> /\ ret.val.schema = <<>>
        /\ Len(NameParts(stream)) = 2 =>
               ret.val.table = NameParts(stream)[1] /\ ret.val.schema = <<>>
        /\ Len(NameParts(stream)) >= 3 =>
               /\ ret.val.table = NameParts(stream)[Len(NameParts(stream)) - 1]
               /\ ret.val.schema =
                      JoinDot(SubSeq(NameParts(stream), 1,
                                     Len(NameParts(stream)) - 2))

\* Four parts, two of them written as one unquoted dotted segment: the schema
\* is the first two parts joined.
C18_Witness ==
    /\ ColumnSplit
    /\ Len(stream) = 3
    /\ Len(NameParts(stream)) = 4
    /\ ret.val.schema = NameParts(stream)[1] \o <<".">> \o NameParts(stream)[2]
    /\ ret.val.table = NameParts(stream)[3]
    /\ ret.val.column = NameParts(stream)[4]

\* The components of a split that are not empty.
Components(q) ==
    (IF q.schema = <<>> THEN <<>> ELSE <<q.schema>>)
        \o (IF q.table = <<>> THEN <<>> ELSE <<q.table>>)
        \o (IF q.column = <<>> THEN <<>> ELSE <<q.column>>)

\* C19: the parts are cut at the dots outside double quotes only (a doubled
\* quote does not end the quoted run), trimmed, with their quotes; the parts
\* joined by dots are the name without the white space around its segments,
\* and so are the components of the three-part split; a segment written with
\* a dot is one of the parts exactly when it is quoted.
C19_SplitRejoins ==
    /\ op = "splitQuotedDot" =>
           /\ ret.val = NameParts(stream)
           /\ JoinDot(ret.val) = NameText(stream, <<>>)
           /\ \A k \in DOMAIN stream :
                  HasDot(stream[k].text) =>
                      ((\E p \in DOMAIN ret.val : ret.val[p] = stream[k].text)
                           <=> Quoted(stream[k].text))
    /\ ColumnSplit =>
           JoinDot(Components(ret.val)) = NameText(stream, <<>>)

\* A quoted segment with a doubled quote before its dot, then an unquoted
\* dotted segment, with white space around the dots: three parts.
C19_Witness ==
    /\ op = "splitQuotedDot"
    /\ Len(stream) = 2
    /\ Quoted(stream[1].text) /\ HasDot(stream[1].text)
    /\ \E p \in 2..(Len(stream[1].text) - 2) :
           stream[1].text[p] = "\"" /\ stream[1].text[p + 1] = "\""
    /\ ~Quoted(stream[2].text) /\ HasDot(stream[2].text)
    /\ Len(cleanSQL) > Len(NameText(stream, <<>>))
    /\ Len(ret.val) = 3
    /\ ret.val[1] = stream[1].text

----------------------------------------------------------------------------
\* String literals.

Opener == stream[1]

Closer == stream[Len(stream)]

BodyAtoms == SubSeq(stream, 2, Len(stream) - 1)

RECURSIVE PlainOf(_)
PlainOf(atoms) ==
    IF atoms = <<>> THEN <<>> ELSE Head(atoms).plain \o PlainOf(Tail(atoms))

RECURSIVE EscOf(_)
EscOf(atoms) ==
    IF atoms = <<>> THEN <<>> ELSE Head(atoms).esc \o EscOf(Tail(atoms))

DecodedLiteral == op = "decodeCommentStringLiteral" /\ stream # <<>>

\* C20: a literal opened by a dollar delimiter and closed by the same one
\* decodes to its body as written; otherwise one opened by E' or N' (in any
\* case) and closed by a quote decodes to its body with doubled quotes
\* collapsed and then the escapes decoded; one opened by U&' or by a quote
\* alone and closed by a quote decodes to its body with doubled quotes
\* collapsed only; every other text decodes to itself, trimmed.
C20_DecoderRules ==
    DecodedLiteral =>
        ret.val =
            IF Opener.form = "dollar" /\ Closer.text = Opener.text
            THEN LiteralText(BodyAtoms)
            ELSE IF Opener.form = "escape" /\ Closer.form = "quote"
            THEN EscOf(BodyAtoms)
            ELSE IF Opener.form \in {"unicode", "plain"} /\ Closer.form = "quote"
            THEN PlainOf(BodyAtoms)
            ELSE LiteralText(stream)

\* An N' literal with an escaped quote next to a doubled quote and another
\* escape, written between spaces: the escapes are decoded after the doubled
\* quote is collapsed.
C20_Witness ==
    /\ DecodedLiteral
    /\ Opener.text = <<"n", "'">>
    /\ Closer.form = "quote"
    /\ Len(BodyAtoms) = 3
    /\ BodyAtoms[1].text = <<"\\", "'">>
    /\ BodyAtoms[2].text = <<"'", "'">>
    /\ BodyAtoms[3].esc # BodyAtoms[3].plain
    /\ Head(cleanSQL) = " "
    /\ ret.val = EscOf(BodyAtoms)
    /\ ret.val # PlainOf(BodyAtoms)

\* C21: the literal written from a text by doubling its single quotes and
\* putting it between single quotes decodes to the text, whether the text
\* holds single quotes or not.
C21_QuoteRoundTrip ==
    op = "decodeCommentStringLiteral" => ret.val = stream

\* A text of a quote, a backslash, a space and another quote.
C21_Witness ==
    /\ op = "decodeCommentStringLiteral"
    /\ stream = <<"'", "\\", " ", "'">>
    /\ cleanSQL = <<"'", "'", "'", "\\", " ", "'", "'", "'">>
    /\ ret.val = stream

\* Whether sub is a substring of s.
Contains(s, sub) ==
    \E i \in 0..(Len(s) - Len(sub)) : SubSeq(s, i + 1, i + Len(sub)) = sub

DollarTag == stream[1]

DollarBody == stream[2]

DollarOther == stream[3]

\* C22: with the same tag at both ends and a body that does not hold $tag$,
\* the dollar-quoted decoder and the literal decoder return the body; with
\* another tag at the end the dollar-quoted decoder reports no success and no
\* body, and the literal decoder returns the text as it is.
C22_DollarTagsMatch ==
    /\ op = "decodeDollarQuotedString" =>
           /\ (DollarOther = DollarTag
                   /\ ~Contains(DollarBody, DollarDelimiter(DollarTag)))
                  => ret.val = Decoded(DollarBody, TRUE)
           /\ DollarOther # DollarTag => ret.val = Decoded(<<>>, FALSE)
    /\ op = "decodeCommentStringLiteral" =>
           /\ (DollarOther = DollarTag
                   /\ ~Contains(DollarBody, DollarDelimiter(DollarTag)))
                  => ret.val = DollarBody
           /\ DollarOther # DollarTag => ret.val = cleanSQL

\* The tag t and a body that holds dollars and the tag, but not $t$.
C22_Witness ==
    /\ op = "decodeDollarQuotedString"
    /\ DollarTag = <<"t">>
    /\ DollarOther = <<"t">>
    /\ DollarBody = <<"$", "t", "a", "$">>
    /\ ret.val = Decoded(DollarBody, TRUE)

\* Whether a trimmed text starts as a quoted literal does: with a quote, with
\* E, N or U& and a quote, or with a dollar.
OpensQuoted(t) ==
    \/ HasPrefix(t, <<"'">>)
    \/ HasPrefix(t, <<"$">>)
    \/ \E prefix \in {<<"E">>, <<"e">>, <<"N">>, <<"n">>,
                      <<"U", "&">>, <<"u", "&">>} :
           HasPrefix(t, prefix \o <<"'">>)

\* Whether a trimmed text ends as a quoted literal does.
ClosesQuoted(t) == HasSuffix(t, <<"'">>) \/ HasSuffix(t, <<"$">>)

LacksQuoteDelimiters(raw) ==
    ~(OpensQuoted(TrimSpace(raw)) /\ ClosesQuoted(TrimSpace(raw)))

DecodedTwice == op = "decodeCommentStringLiteral" /\ Len(stream) = 1

\* C23: for a text that is not between quote delimiters (it does not start
\* as a quoted or dollar-quoted literal, or does not end as one), decoding the
\* decoded text gives the decoded text.
C23_DecodeIdempotent ==
    (DecodedTwice /\ LacksQuoteDelimiters(cleanSQL)) => ret.val = stream[1]

\* A text after a space that ends with two quotes: decoded to itself without
\* the space, twice.
C23_Witness ==
    /\ DecodedTwice
    /\ cleanSQL = <<" ", "a", "'", "'">>
    /\ stream[1] = <<"a", "'", "'">>
    /\ ret.val = stream[1]

----------------------------------------------------------------------------
\* The entry points, continued.

----------------------------------------------------------------------------
\* Concurrent calls.

\* What call i returns when it runs alone: its entry point applied to its
\* own input with all the syntax errors of that input.
CallAlone(i) ==
    CallResult(op[i].entry,
               Parse(root[i].text, root[i].toks, "ok", root[i].nodes,
                     Listen(<<>>, root[i].reports)))

\* The state of call i is what call i alone has made of it so far.
CallOwnsState(i) ==
    /\ stream[i] = (IF op[i].pc = "called" THEN <<>> ELSE root[i].toks)
    /\ errs[i] = Listen(<<>>, SubSeq(root[i].reports, 1, op[i].reported))
    /\ stmts[i] = (IF op[i].pc = "returned" THEN root[i].nodes ELSE <<>>)

\* C25: calls running at the same time do not interfere.  Under every
\* interleaving of their steps the token stream, the error collector and
\* the statements of a call hold only what that call put there, and a call
\* that has returned has returned the result it gives when it runs alone.
C25_CallsDoNotInterfere ==
    \A i \in Calls :
        /\ CallOwnsState(i)
        /\ op[i].pc = "returned" => ret[i] = CallAlone(i)

\* Both calls have returned, each after its parser reported a syntax error,
\* and their results differ.
C25_Witness ==
    /\ \A i \in Calls : op[i].pc = "returned" /\ op[i].reported > 0
    /\ ret[1] # ret[2]

----------------------------------------------------------------------------
\* The correlator, rule by rule.

HasTokenRange(i) == ~stmts[i].start.nil /\ ~stmts[i].stop.nil

InTokenRange(i, e) ==
    /\ HasTokenRange(i)
    /\ stmts[i].start.index <= e.TokenIndex
    /\ e.TokenIndex <= stmts[i].stop.index

HasLines(i) == ~stmts[i].start.nil \/ ~stmts[i].stop.nil

StartLine(i) == IF stmts[i].start.nil THEN 0 ELSE stmts[i].start.line

StopLine(i) ==
    LET stop == IF stmts[i].stop.nil THEN 0 ELSE stmts[i].stop.line
    IN IF stop < StartLine(i) THEN StartLine(i) ELSE stop

InLines(i, e) == HasLines(i) /\ StartLine(i) <= e.Line /\ e.Line <= StopLine(i)

\* The rule that places syntax error e: 1 token range, 2 line range, 3
\* before the first statement, 4 dropped.
RuleOf(e) ==
    IF \E i \in 1..Len(stmts) : InTokenRange(i, e) THEN 1
    ELSE IF \E i \in 1..Len(stmts) : InLines(i, e) THEN 2
    ELSE IF e.Line < StartLine(1) THEN 3
    ELSE 4

\* The statements (counted from 1) syntax error e is assigned to.
AssignedTo(e) ==
    CASE RuleOf(e) = 1 ->
            {Min({i \in 1..Len(stmts) : InTokenRange(i, e)})}
      [] RuleOf(e) = 2 ->
            {Min({i \in 1..Len(stmts) : InLines(i, e)})}
      [] RuleOf(e) = 3 -> {1}
      [] OTHER -> {}

WarningsOf(i) == ret.val.Statements[i].Warnings

\* C26: each collected syntax error goes to at most one statement: the
\* first one whose token range holds the error's token index, else the
\* first one whose lines (the stop line not before the start line) hold the
\* error's line, else the first statement when the error's line is before
\* that statement's start line, and else to none.
C26_CorrelatorRules ==
    (op = "ParseSQLAll" /\ ret.err = Nil) =>
        \A i \in 1..Len(stmts) :
            Len(WarningsOf(i)) =
                Cardinality({k \in 1..Len(errs) : i \in AssignedTo(errs[k])})

\* A batch with two syntax errors placed by different rules, one of them
\* by rule 3 or dropped, over a statement that lacks a bound.
C26_Witness ==
    /\ op = "ParseSQLAll" /\ ret.err = Nil
    /\ Len(errs) = 2
    /\ RuleOf(errs[1]) # RuleOf(errs[2])
    /\ RuleOf(errs[1]) >= 3 \/ RuleOf(errs[2]) >= 3
    /\ \E i \in 1..Len(stmts) : ~HasTokenRange(i) /\ HasLines(i)

----------------------------------------------------------------------------
\* Warnings and the errors they come from.

\* The warning the batch builds from collected error k.
WarningFrom(k) ==
    [Code |-> "SYNTAX_ERROR",
     Message |-> "line " \o ToString(errs[k].Line) \o ":"
                 \o ToString(errs[k].Column) \o " " \o errs[k].Message]

\* The collected errors warning w can have been built from.
ErrorsOf(w) == {k \in 1..Len(errs) : WarningFrom(k) = w}

\* The places (entry, position) of the warnings built from error k.
PlacesOf(k) ==
    {p \in (1..Len(stmts)) \X (1..Len(errs)) :
        /\ p[2] <= Len(WarningsOf(p[1]))
        /\ WarningsOf(p[1])[p[2]] = WarningFrom(k)}

\* C27: every warning of a batch is built from exactly one collected syntax
\* error, with code SYNTAX_ERROR and the message "line L:C <message>" of
\* that error; the warnings of an entry are in the order their errors were
\* collected in; and no error is behind more than one warning.
C27_WarningsFromErrors ==
    (op = "ParseSQLAll" /\ ret.err = Nil) =>
        /\ \A i \in 1..Len(stmts) :
               /\ Len(WarningsOf(i)) <= Len(errs)
               /\ \A j \in 1..Len(WarningsOf(i)) :
                      Cardinality(ErrorsOf(WarningsOf(i)[j])) = 1
               /\ \A j1, j2 \in 1..Len(WarningsOf(i)) :
                      j1 < j2 =>
                          \A k1 \in ErrorsOf(WarningsOf(i)[j1]) :
                          \A k2 \in ErrorsOf(WarningsOf(i)[j2]) : k1 < k2
        /\ \A k \in 1..Len(errs) : Cardinality(PlacesOf(k)) <= 1

\* A batch of two statements and two collected errors: both errors are
\* behind the two warnings of one entry, the other entry has none.
C27_Witness ==
    /\ op = "ParseSQLAll" /\ ret.err = Nil
    /\ Len(stmts) = 2 /\ Len(errs) = 2
    /\ \E i \in 1..2 :
           /\ WarningsOf(i) = <<WarningFrom(1), WarningFrom(2)>>
           /\ WarningsOf(3 - i) = <<>>

----------------------------------------------------------------------------
\* The scan states of the splitter.

\* The scan is inside a quoted region or a block comment.
InRegion == root.inSingle \/ root.inDouble \/ root.inDollar \/ root.inBlockComment

\* The character of the turn; a line comment is passed in the one turn that
\* meets its "--".
ScanChar == cleanSQL[stream + 1]

AtLineComment == ScanChar = "-" /\ At(cleanSQL, stream + 1) = "-"

AtTopLevelComma == ~InRegion /\ ScanChar = "," /\ root.depth = 0

\* The elements once the element in hand has ended: it is added unless it
\* is empty after trimming.
ElementEnded ==
    IF TrimSpace(root.current) = <<>> THEN root.elements
    ELSE Append(root.elements, [element |-> TrimSpace(root.current),
                                comments |-> root.pendingComments])

\* What a turn of the loop does to the elements and to the depth.
TurnRules ==
    /\ AtTopLevelComma =>
           /\ root'.elements = ElementEnded
           /\ root'.current = <<>>
           /\ root'.pendingComments = <<>>
    /\ ~AtTopLevelComma => root'.elements = root.elements
    /\ IF InRegion \/ AtLineComment THEN root'.depth = root.depth
       ELSE IF ScanChar = "(" THEN root'.depth = root.depth + 1
       ELSE IF ScanChar = ")" /\ root.depth > 0 THEN root'.depth = root.depth - 1
       ELSE root'.depth = root.depth

\* What the end of the input does.
ReturnRules ==
    /\ cleanSQL # <<>> => ret'.val = ElementEnded
    /\ root'.depth = root.depth

\* C28: an element ends only at a comma at depth 0 outside quotes, dollar
\* quotes and comments, and at the end of the input; an element that is
\* empty after trimming is dropped with its pending comments; the depth
\* goes up at '(' and down at ')' outside quoted and commented regions only,
\* and is never negative.
C28_SplitterScan ==
    /\ [](op = "scanning" => root.depth >= 0)
    /\ [][(op = "scanning" /\ op' = "scanning" => TurnRules)
          /\ (op = "scanning" /\ op' # "scanning" => ReturnRules)]_vars

CountOf(s, c) == Cardinality({k \in 1..Len(s) : s[k] = c})

\* A scan that returned two elements of a body with a comma inside
\* parentheses and a comma at depth 0.
C28_Witness ==
    /\ op = "splitCreateTableElementsWithComments"
    /\ Len(ret.val) = 2
    /\ CountOf(cleanSQL, ",") = 2
    /\ CountOf(cleanSQL, "(") = 1
    /\ root.depth = 1

----------------------------------------------------------------------------
\* Column names and the identifiers they denote.

\* The PostgreSQL identifier a column name denotes: a plain name is folded
\* to lower case, a name in double quotes (after U& too) is its characters
\* as they are.
PGIdentifier(id) == IF id.form = "plain" THEN ToLower(id.chars) ELSE id.chars

StartsAndEndsQuoted(name) ==
    Len(name) >= 2 /\ Head(name) = "\"" /\ name[Len(name)] = "\""

\* The normalization rule for one name, as the claim words it.
FoldingRule(name) ==
    normalizeCreateTableColumnName(name) =
        IF StartsAndEndsQuoted(name)
        THEN UnescapeQuotes(SubSeq(name, 2, Len(name) - 1))
        ELSE ToLower(trimIdentQuotes(name))

\* C29: column-name normalization follows PostgreSQL identifier folding: a
\* name between double quotes maps to its inner text with "" read as one
\* quote and its case kept, any other name has its outer quotes stripped
\* and is lower-cased; so a declared column is found among the primary-key
\* entries exactly when the two names denote the same identifier.
C29_SameNameIffSameIdentifier ==
    op = "populateCreateTable" =>
        /\ FoldingRule(cleanSQL[1]) /\ FoldingRule(cleanSQL[2])
        /\ ret.val <=> (PGIdentifier(stream[1]) = PGIdentifier(stream[2]))

----------------------------------------------------------------------------
\* The recovery decision and the white space before the statement.

LeadingSpace == Len(cleanSQL) - Len(TrimLeftSpace(cleanSQL))

\* The line and the column of the value token in the text as it was handed
\* over, which is where a parser of that text reports.
ActualValuePlace ==
    Advance(SubSeq(cleanSQL, 1, LeadingSpace + ValueOffset), 1, 0)

AtActualValue(e) ==
    e.Line = ActualValuePlace[1] /\ e.Column = ActualValuePlace[2]

\* The statement without the white space before it is recovered when the
\* error is reported at its value token.
RecoverableTrimmed ==
    shouldRecoverUtilityParseError(
        TrimLeftSpace(cleanSQL),
        <<[Line |-> ValueLine, Column |-> ValueColumn,
           Message |-> "syntax error", TokenIndex |-> -1]>>)

\* C30: the recovery decision does not depend on white space before the
\* statement: a statement that is recovered without it is recovered with
\* it too, when the syntax error is reported where the value token is in
\* the text with the white space.
C30_LeadingSpaceIrrelevant ==
    (/\ op = "shouldRecoverUtilityParseError"
     /\ RecoverableTrimmed
     /\ \E k \in 1..Len(errs) : AtActualValue(errs[k]))
        => ret.val = TRUE

====
